---- MODULE Spec2Model ----
(***************************************************************************)
(* The chart-checker pipeline of chartvalidator/checker:                   *)
(*   caller -> AppCheckerEngine pump -> ChartRenderingEngine (S1)          *)
(*          -> ManifestValidationEngine (S2) -> ImageExtractionEngine (S3) *)
(*          -> DockerImageValidationEngine (S4) -> AppCheckerEngine pump   *)
(*          -> caller's range loop over resultChan.                        *)
(* Every channel of the program is unbuffered, so a send is a rendezvous   *)
(* of one blocked sender with one receiver; each rendezvous is one action. *)
(* External tools (helm, kubeconform, docker, the file system) are black   *)
(* boxes whose answers are chosen per call.                                *)
(***************************************************************************)
EXTENDS Integers, Sequences, FiniteSets, TLC

\* ---------------------------------------------------------------- bounds
MaxCharts == 2
MaxWorkers == 2
MaxDocImages == 2
\* The root context is cancelled only in runs whose workers per stage plus
\* ChartSpecs stay within this load.
MaxCancelLoad == 3
\* ImageRefs that name one image, and workers per stage, in the runs that are
\* followed from the moment S3 holds the ImageRefs (SpecS4).
MaxSameImage == 3
\* Entries of a containers list, and documents of a manifest file, of the
\* documents and files a part is run on by itself.
MaxContainers == 2
MaxDocs == 2
\* Commit messages of a list handed to analyzeManyCommits.
MaxCommits == 3
\* Digits of a component of a version handed to calculateNextVersion.
MaxDigits == 2

\* The ChartSpecs of a run are 1..n, n <= MaxCharts (in SpecS4: MaxSameImage).
Charts == 1..MaxSameImage
Images == {"nginx:1.20", "redis:6.2"}

\* ------------------------------------------------------------- variables
VARIABLES
    workerCount,   \* the argument of Start(workerCount)
    params,        \* the ChartSpecs of the run (findChartsInAppsets)
    cancelled,     \* the root context is done
    toSend,        \* ChartSpecs the caller's goroutine has still to send
    closed,        \* which channels have been closed
    pumpIn,        \* pumpAppCheckInstructionsToChartRenderer
    s1,            \* ChartRenderingEngine workers
    s2,            \* ManifestValidationEngine workers
    s3,            \* ImageExtractionEngine workers
    s4,            \* DockerImageValidationEngine workers
                   \* (of each stage: how many workers wait in their select,
                   \* how many have returned, and the state of each worker
                   \* that holds an input)
    cache,         \* DockerImageValidationEngine.cache
    pending,       \* DockerImageValidationEngine.pending
    wgOpen,        \* the pending WaitGroups whose counter is 1
    lockW,         \* cacheLock: the workers holding it for writing (at most one)
    lockR,         \* cacheLock: the workers holding it for reading
    pumpOut,       \* pumpOutputsToAppCheckResults
    main,          \* runAllChartChecks: its range loop and its return
    hist,          \* observations of the run (not program state)
    call,          \* one part of the program run on its own: the part, its
                   \* inputs and what it did (UnitSpec; no call in a pipeline run)
    outputDir      \* the output directory on disk: whether it exists and the
                   \* paths of the files in it

vars == <<workerCount, params, cancelled, toSend, closed, pumpIn, s1, s2, s3, s4,
          cache, pending, wgOpen, lockW, lockR, pumpOut, main, hist, call,
          outputDir>>

NoChart == 0
NoImage == ""

\* A worker that holds an input is named by that input: the chart in S1..S3,
\* the ImageRef (chart, image) in S4. A WaitGroup of S4's pending map is named
\* by the ImageRef of the worker that made it.
Ref(r) == <<r.chart, r.image>>

Chans == {"inputChan", "s1in", "s1out", "s2out", "s3out", "s4out", "resultChan"}

\* ------------------------------------------------------------ pure parts

RECURSIVE removeDuplicatesFrom(_, _, _)
removeDuplicatesFrom(slice, seen, result) ==
    IF slice = <<>> THEN result
    ELSE IF Head(slice) \in seen
         THEN removeDuplicatesFrom(Tail(slice), seen, result)
         ELSE removeDuplicatesFrom(Tail(slice), seen \cup {Head(slice)},
                                   Append(result, Head(slice)))

\* A removeDuplicates that keeps every item.
removeDuplicatesKeepAll(slice) == slice

removeDuplicates(slice) == removeDuplicatesFrom(slice, {}, <<>>)

\* A renderSingleChart that checks the override file before the base file.
renderSingleChartOverrideFirst(baseExists, overrideExists, helmOk, absOk, writeOk) ==
    IF ~overrideExists THEN "values override file does not exist"
    ELSE IF ~baseExists THEN "base values file does not exist"
    ELSE IF ~helmOk THEN "helm command failed"
    ELSE IF ~absOk THEN "failed to get absolute path for output dir"
    ELSE IF ~writeOk THEN "failed to write rendered manifest to file"
    ELSE "nil"

\* renderSingleChart: the file checks, the helm call and the write, in the
\* order of the code; the environment's answers are the parameters.
renderSingleChart(baseExists, overrideExists, helmOk, absOk, writeOk) ==
    IF ~baseExists THEN "base values file does not exist"
    ELSE IF ~overrideExists THEN "values override file does not exist"
    ELSE IF ~helmOk THEN "helm command failed"
    ELSE IF ~absOk THEN "failed to get absolute path for output dir"
    ELSE IF ~writeOk THEN "failed to write rendered manifest to file"
    ELSE "nil"

\* The calls renderSingleChart makes on the executor and the file system, in
\* order: each one is reached only if the ones before it succeeded.
renderCalls(baseExists, overrideExists, helmOk, absOk, writeOk) ==
    <<"FileExists(BaseValuesFile)">> \o
    (IF ~baseExists THEN <<>> ELSE <<"FileExists(ValuesOverride)">> \o
    (IF ~overrideExists THEN <<>> ELSE <<"helm">> \o
    (IF ~helmOk THEN <<>> ELSE <<"filepath.Abs">> \o
    (IF ~absOk THEN <<>> ELSE <<"os.WriteFile">>))))

\* What a ChartRenderingEngine worker sends for one input: the ErrorResult on
\* errorChan and `continue`, or else the RenderResult on resultChan.
S1Sends(chart, err) ==
    IF err # "nil" THEN <<[chan |-> "errorChan", chart |-> chart, err |-> err]>>
    ELSE <<[chan |-> "resultChan", chart |-> chart, err |-> "nil"]>>

\* A validateManifest that does not look at what kubeconform returned.
validateManifestLenient(fileExists, kubeconformOk) ==
    IF ~fileExists THEN "manifest file does not exist" ELSE "nil"

\* validateManifest: stat of the manifest, then kubeconform.
validateManifest(fileExists, kubeconformOk) ==
    IF ~fileExists THEN "manifest file does not exist"
    ELSE IF ~kubeconformOk THEN "kubeconform command failed"
    ELSE "nil"

\* What a ManifestValidationEngine worker sends for one input: the
\* ErrorResult on errorChan and `continue`, or else the
\* ManifestValidationResult (ManifestFile, Error: nil, Chart) on resultChan.
S2Sends(chart, manifestPath, err) ==
    IF err # "nil" THEN <<[chan |-> "errorChan", chart |-> chart, err |-> err]>>
    ELSE <<[chan |-> "resultChan", chart |-> chart, manifestFile |-> manifestPath,
            err |-> "nil"]>>

\* Paths of rendered manifests: <chartName>_<random>.yaml in the output directory.
ManifestPaths == {"app_a1b2c3.yaml", "app_x9y8z7.yaml"}

\* A validateSingleDockerImage that reports every inspected image as existing.
validateSingleDockerImageOptimistic(chart, image, err) ==
    [chart |-> chart, image |-> image, exists |-> TRUE, err |-> err]

\* validateSingleDockerImage: Exists is (err == nil), Error is err.
validateSingleDockerImage(chart, image, err) ==
    [chart |-> chart, image |-> image, exists |-> (err = "nil"), err |-> err]

\* What cmd.Run() of `docker manifest inspect` can return: exit 0, a
\* non-zero exit, or (once the context is done) the kill of the command.
InspectErrs == IF cancelled THEN {"nil", "exit", "ctx"} ELSE {"nil", "exit"}

\* The AppCheckResult that pumpOutputsToAppCheckResults builds.
AppCheckResultOf(r) ==
    [chart |-> r.chart, image |-> r.image,
     err |-> IF r.err # "nil" THEN r.err
             ELSE IF ~r.exists THEN "docker image does not exist"
             ELSE "nil"]

RawImageLists == UNION {[1..n -> Images] : n \in 0..MaxDocImages}

NoResult == [chart |-> NoChart, image |-> NoImage, exists |-> FALSE, err |-> "nil"]


\* ----------------------------------------------------------------- Init

NoAppResult == [chart |-> NoChart, image |-> NoImage, err |-> "nil"]
IdlePump == [pc |-> "recv", chart |-> NoChart]
IdlePumpOut == [pc |-> "recv", ref |-> NoChart, res |-> NoAppResult]

\* Start(workerCount): workerCount workers, all in their select.
Started(n) == [idle |-> n, done |-> 0, busy |-> {}]

InitHist ==
    [inspectCount |-> [i \in Images |-> 0],     \* runs of the inspector, per image
     emitted |-> [i \in Images |-> {}],         \* (exists, err) pairs S4 emitted
     refs |-> {},                               \* (chart, image) pairs S3 produced
     recv |-> [r \in Charts \X Images |-> 0],   \* ImageRefs S4 received
     served |-> [r \in Charts \X Images |-> 0], \* entries the caller received, by ImageRef
     tagged |-> {},                             \* charts named by an entry the caller received
     midRun |-> FALSE,                          \* the context was cancelled with ChartSpecs unsent
     closes |-> [c \in Chans |-> 0],            \* executions of close(c)
     led |-> [r \in Charts \X Images |-> <<>>], \* (exists, err) a leader stored in the cache
     delivered |-> {},                          \* (chart, image, err) of the entries the caller received
     noImage |-> {},                            \* charts whose manifest was read and held no image
     written |-> {},                            \* paths of the manifest files a worker has written
     errs |-> [c \in Charts |-> 0]]             \* ErrorResults the stages built, per chart

\* A stage built an ErrorResult for the chart (err is not nil) or built none.
Erred(h, chart, err) == IF err = "nil" THEN h ELSE [h EXCEPT !.errs[chart] = @ + 1]

NoCall == [fn |-> "none"]

\* The output directory as recreateOutputDir leaves it.
EmptyDir == [exists |-> TRUE, files |-> {}]

Init ==
    /\ workerCount \in 1..MaxWorkers
    /\ params \in {[k \in 1..n |-> k] : n \in 0..MaxCharts}
    /\ toSend = params
    /\ cancelled = FALSE
    /\ closed = [c \in Chans |-> FALSE]
    /\ pumpIn = IdlePump
    /\ s1 = Started(workerCount)
    /\ s2 = Started(workerCount)
    /\ s3 = Started(workerCount)
    /\ s4 = Started(workerCount)
    /\ cache = [i \in Images |-> NoResult]
    /\ pending = [i \in Images |-> NoChart]
    /\ wgOpen = {}
    /\ lockW = {}
    /\ lockR = {}
    /\ pumpOut = IdlePumpOut
    /\ main = [pc |-> "range", success |-> TRUE, exit |-> -1]
    /\ hist = InitHist
    /\ call = NoCall
    /\ outputDir = EmptyDir

coordVars == <<toSend, pumpIn, pumpOut, main>>
cacheVars == <<cache, pending, wgOpen, lockW, lockR>>
runVars == <<workerCount, params, cancelled, call, outputDir>>

\* cacheLock (sync.RWMutex)
CanRLock == lockW = {}
CanLock == lockW = {} /\ lockR = {}
\* A cache in which no lookup finds anything.
InCacheNever(i) == FALSE
InCache(i) == cache[i] # NoResult
InPending(i) == pending[i] # NoChart

\* A stage's worker leaves its select with an input / comes back to it /
\* returns from it; a worker with an input changes its state.
Take(s, r) == [s EXCEPT !.idle = @ - 1, !.busy = @ \cup {r}]
Release(s, r) == [s EXCEPT !.idle = @ + 1, !.busy = @ \ {r}]
Return(s) == [s EXCEPT !.idle = @ - 1, !.done = @ + 1]
Move(s, r, t) == [s EXCEPT !.busy = (@ \ {r}) \cup {t}]

\* ------------------------------------------------- the root context

Cancel ==
    /\ ~cancelled
    /\ workerCount + Len(params) <= MaxCancelLoad
    /\ cancelled' = TRUE
    /\ hist' = [hist EXCEPT !.midRun = (toSend # <<>>)]
    /\ UNCHANGED <<workerCount, params, call, outputDir, closed, s1, s2, s3, s4,
                   coordVars, cacheVars>>

\* ------------------------------------- the caller (runAllChartChecks)

\* go func() { for _, p := range params { appChecker.inputChan <- ... } }
\* meets the range of pumpAppCheckInstructionsToChartRenderer.
CallerSend ==
    /\ toSend # <<>>
    /\ pumpIn.pc = "recv"
    /\ pumpIn' = [pc |-> "send", chart |-> Head(toSend)]
    /\ toSend' = Tail(toSend)
    /\ UNCHANGED <<runVars, closed, s1, s2, s3, s4, cacheVars, pumpOut, main, hist>>

\* close(appChecker.inputChan)
CallerClose ==
    /\ toSend = <<>>
    /\ ~closed["inputChan"]
    /\ closed' = [closed EXCEPT !["inputChan"] = TRUE]
    /\ hist' = [hist EXCEPT !.closes["inputChan"] = @ + 1]
    /\ UNCHANGED <<runVars, s1, s2, s3, s4, coordVars, cacheVars>>

\* for result := range appChecker.resultChan, meeting the send of
\* pumpOutputsToAppCheckResults.
CallerReceive ==
    /\ main.pc = "range"
    /\ pumpOut.pc = "send"
    /\ LET r == pumpOut.res IN
       /\ main' = [main EXCEPT !.success = IF r.err # "nil" THEN FALSE ELSE @]
       /\ hist' = [hist EXCEPT
                     !.tagged = @ \cup {r.chart},
                     !.delivered = @ \cup {<<r.chart, r.image, r.err>>},
                     !.served[<<pumpOut.ref, r.image>>] = @ + 1]
    /\ pumpOut' = IdlePumpOut
    /\ UNCHANGED <<runVars, toSend, closed, pumpIn, s1, s2, s3, s4, cacheVars>>

\* The range loop ends on the closed channel; the command's exit code.
CallerFinish ==
    /\ main.pc = "range"
    /\ closed["resultChan"]
    /\ main' = [main EXCEPT !.pc = "exit",
                            !.exit = IF main.success THEN 0 ELSE 1]
    /\ UNCHANGED <<runVars, toSend, closed, pumpIn, s1, s2, s3, s4, cacheVars,
                   pumpOut, hist>>

\* ------------------------------------------ AppCheckerEngine's pumps

\* A worker that builds the ErrorResult of a failed render and still hands
\* the chart on as rendered.
PumpInForwardAfterError ==
    /\ pumpIn.pc = "send"
    /\ s1.idle > 0
    /\ \E baseExists, overrideExists, helmOk, absOk, writeOk \in BOOLEAN :
         LET err == renderSingleChart(baseExists, overrideExists, helmOk, absOk, writeOk) IN
         /\ s1' = Take(s1, [chart |-> pumpIn.chart, pc |-> "sendOut", err |-> "nil"])
         /\ hist' = Erred(hist, pumpIn.chart, err)
    /\ pumpIn' = IdlePump
    /\ UNCHANGED <<runVars, toSend, closed, s2, s3, s4, cacheVars, pumpOut, main>>

\* engine.ChartRenderingEngine.inputChan <- ChartRenderParams{...}, received
\* by the select of a ChartRenderingEngine worker, which runs
\* renderSingleChart and goes to its send: on errorChan after an error, else
\* on resultChan.
PumpInForward ==
    /\ pumpIn.pc = "send"
    /\ s1.idle > 0
    /\ \E baseExists, overrideExists, helmOk, absOk, writeOk \in BOOLEAN :
         LET err == renderSingleChart(baseExists, overrideExists, helmOk, absOk, writeOk) IN
         /\ s1' = Take(s1, [chart |-> pumpIn.chart,
                            pc |-> IF err = "nil" THEN "sendOut" ELSE "sendErr",
                            err |-> err])
         /\ hist' = Erred(hist, pumpIn.chart, err)
    /\ pumpIn' = IdlePump
    /\ UNCHANGED <<runVars, toSend, closed, s2, s3, s4, cacheVars, pumpOut, main>>

\* An input pump that returns at the end of its range without closing the
\* input of the ChartRenderingEngine.
PumpInReturnOnly ==
    /\ pumpIn.pc = "recv"
    /\ closed["inputChan"]
    /\ pumpIn' = [pumpIn EXCEPT !.pc = "done"]
    /\ UNCHANGED <<runVars, toSend, closed, s1, s2, s3, s4, cacheVars, pumpOut, main, hist>>

\* The range over inputChan ends; close(engine.ChartRenderingEngine.inputChan).
PumpInClose ==
    /\ pumpIn.pc = "recv"
    /\ closed["inputChan"]
    /\ pumpIn' = [pumpIn EXCEPT !.pc = "done"]
    /\ closed' = [closed EXCEPT !["s1in"] = TRUE]
    /\ hist' = [hist EXCEPT !.closes["s1in"] = @ + 1]
    /\ UNCHANGED <<runVars, toSend, s1, s2, s3, s4, cacheVars, pumpOut, main>>

\* for dockerResult := range engine.DockerValidationEngine.outputChan, meeting
\* engine.outputChan <- result of an S4 worker, which goes back to its select.
PumpOutReceive(r) ==
    /\ pumpOut.pc = "recv"
    /\ r.pc = "sendOut"
    /\ pumpOut' = [pc |-> "send", ref |-> r.chart, res |-> AppCheckResultOf(r.out)]
    /\ s4' = Release(s4, r)
    /\ hist' = [hist EXCEPT
                  !.emitted[r.out.image] = @ \cup {<<r.out.exists, r.out.err>>}]
    /\ UNCHANGED <<runVars, toSend, closed, pumpIn, s1, s2, s3, cacheVars, main>>

PumpOutClose ==
    /\ pumpOut.pc = "recv"
    /\ closed["s4out"]
    /\ pumpOut' = [pumpOut EXCEPT !.pc = "done"]
    /\ UNCHANGED <<runVars, toSend, closed, pumpIn, s1, s2, s3, s4, cacheVars, main, hist>>

\* An allDoneWorker of the coordinator that waits for the input pump only.
AppCheckerAllDoneEarly ==
    /\ pumpIn.pc = "done"
    /\ ~closed["resultChan"]
    /\ closed' = [closed EXCEPT !["resultChan"] = TRUE]
    /\ hist' = [hist EXCEPT !.closes["resultChan"] = @ + 1]
    /\ UNCHANGED <<runVars, s1, s2, s3, s4, coordVars, cacheVars>>

\* AppCheckerEngine.allDoneWorker: both pumps done, close(engine.resultChan).
AppCheckerAllDone ==
    /\ pumpIn.pc = "done"
    /\ pumpOut.pc = "done"
    /\ ~closed["resultChan"]
    /\ closed' = [closed EXCEPT !["resultChan"] = TRUE]
    /\ hist' = [hist EXCEPT !.closes["resultChan"] = @ + 1]
    /\ UNCHANGED <<runVars, s1, s2, s3, s4, coordVars, cacheVars>>


\* ------------------------------------------- ChartRenderingEngine (S1)

\* case chart, ok := <-engine.inputChan with !ok
S1InputClosed ==
    /\ s1.idle > 0
    /\ closed["s1in"]
    /\ s1' = Return(s1)
    /\ UNCHANGED <<runVars, closed, s2, s3, s4, coordVars, cacheVars, hist>>

\* case <-engine.context.Done()
S1ContextDone ==
    /\ s1.idle > 0
    /\ cancelled
    /\ s1' = Return(s1)
    /\ UNCHANGED <<runVars, closed, s2, s3, s4, coordVars, cacheVars, hist>>

\* An allDoneWorker whose Wait() returns with the first worker that returns
\* (a WaitGroup counted for one worker instead of workerCount).
S1AllDoneEarly ==
    /\ s1.done >= 1
    /\ ~closed["s1out"]
    /\ closed' = [closed EXCEPT !["s1out"] = TRUE]
    /\ hist' = [hist EXCEPT !.closes["s1out"] = @ + 1]
    /\ UNCHANGED <<runVars, s1, s2, s3, s4, coordVars, cacheVars>>

\* ChartRenderingEngine.allDoneWorker
S1AllDone ==
    /\ s1.done = workerCount
    /\ ~closed["s1out"]
    /\ closed' = [closed EXCEPT !["s1out"] = TRUE]
    /\ hist' = [hist EXCEPT !.closes["s1out"] = @ + 1]
    /\ UNCHANGED <<runVars, s1, s2, s3, s4, coordVars, cacheVars>>

\* ---------------------------------------- ManifestValidationEngine (S2)

\* An S2 that also receives what an S1 worker sends after a failed render.
S2ReceiveAny(r) ==
    /\ r.pc \in {"sendOut", "sendErr"}
    /\ s2.idle > 0
    /\ \E fileExists, kubeconformOk \in BOOLEAN :
         LET err == validateManifest(fileExists, kubeconformOk) IN
         /\ s2' = Take(s2, [chart |-> r.chart,
                            pc |-> IF err = "nil" THEN "sendOut" ELSE "sendErr",
                            err |-> err])
         /\ hist' = Erred(hist, r.chart, err)
    /\ s1' = Release(s1, r)
    /\ UNCHANGED <<runVars, closed, s3, s4, coordVars, cacheVars>>

\* engine.resultChan <- *result of an S1 worker, received by the select of an
\* S2 worker, which runs validateManifest and goes to its send.
S2Receive(r) ==
    /\ r.pc = "sendOut"
    /\ s2.idle > 0
    /\ \E fileExists, kubeconformOk \in BOOLEAN :
         LET err == validateManifest(fileExists, kubeconformOk) IN
         /\ s2' = Take(s2, [chart |-> r.chart,
                            pc |-> IF err = "nil" THEN "sendOut" ELSE "sendErr",
                            err |-> err])
         /\ hist' = Erred(hist, r.chart, err)
    /\ s1' = Release(s1, r)
    /\ UNCHANGED <<runVars, closed, s3, s4, coordVars, cacheVars>>

S2InputClosed ==
    /\ s2.idle > 0
    /\ closed["s1out"]
    /\ s2' = Return(s2)
    /\ UNCHANGED <<runVars, closed, s1, s3, s4, coordVars, cacheVars, hist>>

S2ContextDone ==
    /\ s2.idle > 0
    /\ cancelled
    /\ s2' = Return(s2)
    /\ UNCHANGED <<runVars, closed, s1, s3, s4, coordVars, cacheVars, hist>>

\* ManifestValidationEngine.allDoneWorker
S2AllDone ==
    /\ s2.done = workerCount
    /\ ~closed["s2out"]
    /\ closed' = [closed EXCEPT !["s2out"] = TRUE]
    /\ hist' = [hist EXCEPT !.closes["s2out"] = @ + 1]
    /\ UNCHANGED <<runVars, s1, s2, s3, s4, coordVars, cacheVars>>

\* ------------------------------------------- ImageExtractionEngine (S3)

\* extractImagesFromFile: a read error of the file is the only error; the
\* images of the documents are returned in order.
extractImagesFromFile(readOk, raw) ==
    IF ~readOk THEN [err |-> "failed to read file", images |-> <<>>]
    ELSE [err |-> "nil", images |-> raw]

\* An S3 that treats a manifest without images as a failure of the chart: an
\* ErrorResult on errorChan.
S3ReceiveEmptyIsError(r) ==
    /\ r.pc = "sendOut"
    /\ s3.idle > 0
    /\ \E readOk \in BOOLEAN, raw \in RawImageLists :
         LET x == extractImagesFromFile(readOk, raw)
             uniqueImages == removeDuplicates(x.images) IN
         IF x.err # "nil" \/ uniqueImages = <<>>
         THEN /\ s3' = Take(s3, [chart |-> r.chart, pc |-> "sendErr",
                                 err |-> IF x.err # "nil" THEN x.err ELSE "no images",
                                 imgs |-> <<>>])
              /\ hist' = [hist EXCEPT
                            !.noImage = IF x.err = "nil" THEN @ \cup {r.chart} ELSE @]
         ELSE /\ s3' = Take(s3, [chart |-> r.chart, pc |-> "sendOut",
                                 err |-> "nil", imgs |-> uniqueImages])
              /\ hist' = [hist EXCEPT
                            !.refs = @ \cup {<<r.chart, uniqueImages[k]>> :
                                              k \in 1..Len(uniqueImages)}]
    /\ s2' = Release(s2, r)
    /\ UNCHANGED <<runVars, closed, s1, s4, coordVars, cacheVars>>

\* engine.resultChan <- *result of an S2 worker, received by the select of an
\* S3 worker: images, err := engine.extractImagesFromFile(...); on success
\* uniqueImages := removeDuplicates(images) and the loop of sends starts (a
\* manifest without images goes straight back to the select).
S3Receive(r) ==
    /\ r.pc = "sendOut"
    /\ s3.idle > 0
    /\ \E readOk \in BOOLEAN, raw \in RawImageLists :
         LET x == extractImagesFromFile(readOk, raw)
             uniqueImages == removeDuplicates(x.images) IN
         IF x.err # "nil"
         THEN /\ s3' = Take(s3, [chart |-> r.chart, pc |-> "sendErr",
                                 err |-> x.err, imgs |-> <<>>])
              /\ hist' = Erred(hist, r.chart, x.err)
         ELSE /\ s3' = IF uniqueImages = <<>> THEN s3
                       ELSE Take(s3, [chart |-> r.chart, pc |-> "sendOut",
                                      err |-> "nil", imgs |-> uniqueImages])
              /\ hist' = [hist EXCEPT
                            !.refs = @ \cup {<<r.chart, uniqueImages[k]>> :
                                              k \in 1..Len(uniqueImages)},
                            !.noImage = IF uniqueImages = <<>> THEN @ \cup {r.chart}
                                        ELSE @]
    /\ s2' = Release(s2, r)
    /\ UNCHANGED <<runVars, closed, s1, s4, coordVars, cacheVars>>

S3InputClosed ==
    /\ s3.idle > 0
    /\ closed["s2out"]
    /\ s3' = Return(s3)
    /\ UNCHANGED <<runVars, closed, s1, s2, s4, coordVars, cacheVars, hist>>

S3ContextDone ==
    /\ s3.idle > 0
    /\ cancelled
    /\ s3' = Return(s3)
    /\ UNCHANGED <<runVars, closed, s1, s2, s4, coordVars, cacheVars, hist>>

\* ImageExtractionEngine.allDoneWorker
S3AllDone ==
    /\ s3.done = workerCount
    /\ ~closed["s3out"]
    /\ closed' = [closed EXCEPT !["s3out"] = TRUE]
    /\ hist' = [hist EXCEPT !.closes["s3out"] = @ + 1]
    /\ UNCHANGED <<runVars, s1, s2, s3, s4, coordVars, cacheVars>>

\* ------------------------------------ DockerImageValidationEngine (S4)

pipeVars == <<runVars, closed, s1, s2, coordVars>>

\* engine.outputChan <- ImageExtractionResult{...} of an S3 worker (one image
\* of its loop), received by the select of an S4 worker.
S4Receive(r) ==
    /\ r.pc = "sendOut"
    /\ s4.idle > 0
    /\ s4' = Take(s4, [chart |-> r.chart, image |-> Head(r.imgs), pc |-> "wfpRLock",
                       waitOn |-> NoChart, out |-> NoResult])
    /\ s3' = IF Tail(r.imgs) = <<>> THEN Release(s3, r)
             ELSE Move(s3, r, [r EXCEPT !.imgs = Tail(@)])
    /\ hist' = [hist EXCEPT !.recv[<<r.chart, Head(r.imgs)>>] = @ + 1]
    /\ UNCHANGED <<pipeVars, cacheVars>>

S4InputClosed ==
    /\ s4.idle > 0
    /\ closed["s3out"]
    /\ s4' = Return(s4)
    /\ UNCHANGED <<pipeVars, s3, cacheVars, hist>>

S4ContextDone ==
    /\ s4.idle > 0
    /\ cancelled
    /\ s4' = Return(s4)
    /\ UNCHANGED <<pipeVars, s3, cacheVars, hist>>

\* engine.cacheLock.RLock() at the three places a worker takes it for reading:
\* waitForPending's first lookup, its re-read after the wait, the worker's
\* cache lookup.
S4RLock(r) ==
    /\ r.pc \in {"wfpRLock", "wfpRLock2", "cacheRLock"}
    /\ CanRLock
    /\ lockR' = lockR \cup {Ref(r)}
    /\ s4' = Move(s4, r, [r EXCEPT !.pc = CASE @ = "wfpRLock" -> "wfpLook"
                                           [] @ = "wfpRLock2" -> "wfpRead"
                                           [] OTHER -> "cacheLook"])
    /\ UNCHANGED <<pipeVars, s3, cache, pending, wgOpen, lockW, hist>>

\* waitForPending: if wg, found := engine.pending[image]; RUnlock either way.
S4WfpLook(r) ==
    /\ r.pc = "wfpLook"
    /\ lockR' = lockR \ {Ref(r)}
    /\ s4' = Move(s4, r, IF InPending(r.image)
                         THEN [r EXCEPT !.pc = "wgWait", !.waitOn = pending[r.image]]
                         ELSE [r EXCEPT !.pc = "cacheRLock"])
    /\ UNCHANGED <<pipeVars, s3, cache, pending, wgOpen, lockW, hist>>

\* wg.Wait() returns once the leader has called Done on that WaitGroup.
S4WgWait(r) ==
    /\ r.pc = "wgWait"
    /\ <<r.waitOn, r.image>> \notin wgOpen
    /\ s4' = Move(s4, r, [r EXCEPT !.pc = "wfpRLock2"])
    /\ UNCHANGED <<pipeVars, s3, cacheVars, hist>>

\* waitForPending after the wait: the cached result re-stamped with the
\* caller's chart, or nil when the cache has none (the worker then goes on to
\* its own cache lookup).
S4WfpRead(r) ==
    /\ r.pc = "wfpRead"
    /\ lockR' = lockR \ {Ref(r)}
    /\ s4' = Move(s4, r,
                IF InCache(r.image)
                THEN [r EXCEPT !.pc = "sendOut",
                               !.out = [chart |-> r.chart,
                                        image |-> r.image,
                                        exists |-> cache[r.image].exists,
                                        err |-> cache[r.image].err]]
                ELSE [r EXCEPT !.pc = "cacheRLock"])
    /\ UNCHANGED <<pipeVars, s3, cache, pending, wgOpen, lockW, hist>>

\* A cache lookup that answers a hit with nothing: the worker goes back to its
\* select without a send on outputChan.
S4CacheLookSilent(r) ==
    /\ r.pc = "cacheLook"
    /\ lockR' = lockR \ {Ref(r)}
    /\ s4' = IF InCache(r.image)
             THEN Release(s4, r)
             ELSE Move(s4, r, [r EXCEPT !.pc = "leadLock"])
    /\ UNCHANGED <<pipeVars, s3, cache, pending, wgOpen, lockW, hist>>

\* if result, found := engine.cache[image]; found { engine.outputChan <- result }
S4CacheLook(r) ==
    /\ r.pc = "cacheLook"
    /\ lockR' = lockR \ {Ref(r)}
    /\ s4' = Move(s4, r, IF InCache(r.image)
                         THEN [r EXCEPT !.pc = "sendOut", !.out = cache[r.image]]
                         ELSE [r EXCEPT !.pc = "leadLock"])
    /\ UNCHANGED <<pipeVars, s3, cache, pending, wgOpen, lockW, hist>>

\* engine.cacheLock.Lock() before the insert into pending and before the store.
S4Lock(r) ==
    /\ r.pc \in {"leadLock", "storeLock"}
    /\ CanLock
    /\ lockW' = {Ref(r)}
    /\ s4' = Move(s4, r, [r EXCEPT !.pc = IF @ = "leadLock" THEN "leadInsert" ELSE "store"])
    /\ UNCHANGED <<pipeVars, s3, cache, pending, wgOpen, lockR, hist>>

\* An insert into pending without the Unlock: the leader inspects with the
\* write lock held.
S4LeadInsertKeepsLock(r) ==
    /\ r.pc = "leadInsert"
    /\ pending' = [pending EXCEPT ![r.image] = r.chart]
    /\ wgOpen' = wgOpen \cup {Ref(r)}
    /\ s4' = Move(s4, r, [r EXCEPT !.pc = "inspect"])
    /\ UNCHANGED <<pipeVars, s3, cache, lockW, lockR, hist>>

\* engine.pending[image] = &sync.WaitGroup{}; pendingWG.Add(1); Unlock.
S4LeadInsert(r) ==
    /\ r.pc = "leadInsert"
    /\ pending' = [pending EXCEPT ![r.image] = r.chart]
    /\ wgOpen' = wgOpen \cup {Ref(r)}
    /\ lockW' = {}
    /\ s4' = Move(s4, r, [r EXCEPT !.pc = "inspect"])
    /\ UNCHANGED <<pipeVars, s3, cache, lockR, hist>>

\* result := engine.validateSingleDockerImage(input.Chart, image, workerId)
S4Inspect(r) ==
    /\ r.pc = "inspect"
    /\ \E err \in InspectErrs :
         s4' = Move(s4, r, [r EXCEPT !.pc = "storeLock",
                                     !.out = validateSingleDockerImage(r.chart, r.image, err)])
    /\ hist' = [hist EXCEPT !.inspectCount[r.image] = @ + 1]
    /\ UNCHANGED <<pipeVars, s3, cacheVars>>

\* A store that leaves the image's key in pending.
S4StoreKeepsPending(r) ==
    /\ r.pc = "store"
    /\ cache' = [cache EXCEPT ![r.image] = r.out]
    /\ wgOpen' = wgOpen \ {Ref(r)}
    /\ lockW' = {}
    /\ s4' = Move(s4, r, [r EXCEPT !.pc = "sendOut"])
    /\ hist' = [hist EXCEPT !.led[Ref(r)] = <<r.out.exists, r.out.err>>]
    /\ UNCHANGED <<pipeVars, s3, lockR, pending>>

\* engine.cache[image] = result; pendingWG.Done(); delete(engine.pending, image);
\* Unlock.
S4Store(r) ==
    /\ r.pc = "store"
    /\ cache' = [cache EXCEPT ![r.image] = r.out]
    /\ wgOpen' = wgOpen \ {Ref(r)}
    /\ pending' = [pending EXCEPT ![r.image] = NoChart]
    /\ lockW' = {}
    /\ s4' = Move(s4, r, [r EXCEPT !.pc = "sendOut"])
    /\ hist' = [hist EXCEPT !.led[Ref(r)] = <<r.out.exists, r.out.err>>]
    /\ UNCHANGED <<pipeVars, s3, lockR>>

\* DockerImageValidationEngine.allDoneWorker
S4AllDone ==
    /\ s4.done = workerCount
    /\ ~closed["s4out"]
    /\ closed' = [closed EXCEPT !["s4out"] = TRUE]
    /\ hist' = [hist EXCEPT !.closes["s4out"] = @ + 1]
    /\ UNCHANGED <<runVars, s1, s2, s3, s4, coordVars, cacheVars>>

\* ------------------------------------------------------ specifications

\* Every step of the program (all but the cancellation of the root context,
\* which is the caller's choice).
Progress ==
    \/ CallerSend \/ CallerClose \/ CallerReceive \/ CallerFinish
    \/ PumpInForward \/ PumpInClose \/ PumpOutClose \/ AppCheckerAllDone
    \/ S1InputClosed \/ S1ContextDone \/ S1AllDone
    \/ S2InputClosed \/ S2ContextDone \/ S2AllDone
    \/ S3InputClosed \/ S3ContextDone \/ S3AllDone
    \/ S4InputClosed \/ S4ContextDone \/ S4AllDone
    \/ \E r \in s1.busy : S2Receive(r)
    \/ \E r \in s2.busy : S3Receive(r)
    \/ \E r \in s3.busy : S4Receive(r)
    \/ \E r \in s4.busy :
         \/ S4RLock(r) \/ S4WfpLook(r) \/ S4WgWait(r) \/ S4WfpRead(r)
         \/ S4CacheLook(r) \/ S4Lock(r) \/ S4LeadInsert(r) \/ S4Inspect(r)
         \/ S4Store(r) \/ PumpOutReceive(r)

Next == Progress \/ Cancel

Spec == Init /\ [][Next]_vars

\* The Go scheduler runs every goroutine that can run and the external tools
\* return, so a step of the program that stays possible is taken.
FairSpec == Spec /\ WF_vars(Progress)


\* The same program followed from a later moment of a run with MaxSameImage
\* ChartSpecs and workers per stage: every chart was rendered and validated,
\* the caller, the input pump, S1 and S2 have returned and closed their
\* channels, and each S3 worker holds one chart's ImageRef, all naming the
\* same image. The root context is cancelled at that moment or not at all.
UpstreamClosed == {"inputChan", "s1in", "s1out", "s2out"}

InitS4 ==
    /\ workerCount = MaxSameImage
    /\ params = [k \in 1..MaxSameImage |-> k]
    /\ toSend = <<>>
    /\ cancelled \in BOOLEAN
    /\ closed = [c \in Chans |-> c \in UpstreamClosed]
    /\ pumpIn = [IdlePump EXCEPT !.pc = "done"]
    /\ s1 = [idle |-> 0, done |-> workerCount, busy |-> {}]
    /\ s2 = [idle |-> 0, done |-> workerCount, busy |-> {}]
    /\ s3 = [idle |-> 0, done |-> 0,
             busy |-> {[chart |-> c, pc |-> "sendOut", err |-> "nil",
                        imgs |-> <<"nginx:1.20">>] : c \in Charts}]
    /\ s4 = Started(workerCount)
    /\ cache = [i \in Images |-> NoResult]
    /\ pending = [i \in Images |-> NoChart]
    /\ wgOpen = {}
    /\ lockW = {}
    /\ lockR = {}
    /\ pumpOut = IdlePumpOut
    /\ main = [pc |-> "range", success |-> TRUE, exit |-> -1]
    /\ hist = [InitHist EXCEPT
                 !.refs = {<<c, "nginx:1.20">> : c \in Charts},
                 !.closes = [c \in Chans |-> IF c \in UpstreamClosed THEN 1 ELSE 0]]
    /\ call = NoCall
    /\ outputDir = EmptyDir

NextS4 ==
    \/ CallerReceive \/ CallerFinish \/ PumpOutClose \/ AppCheckerAllDone
    \/ S3InputClosed \/ S3ContextDone \/ S3AllDone
    \/ S4InputClosed \/ S4ContextDone \/ S4AllDone
    \/ \E r \in s3.busy : S4Receive(r)
    \/ \E r \in s4.busy :
         \/ S4RLock(r) \/ S4WfpLook(r) \/ S4WgWait(r) \/ S4WfpRead(r)
         \/ S4CacheLook(r) \/ S4Lock(r) \/ S4LeadInsert(r) \/ S4Inspect(r)
         \/ S4Store(r) \/ PumpOutReceive(r)

SpecS4 == InitS4 /\ [][NextS4]_vars

\* ------------------------------------------------ manifest documents

\* A YAML document of a manifest as extractImageFromManifest sees it: whether
\* it parses, its kind ("" for none), whether its metadata is a map, which
\* step of the way to its pod spec is missing (spec; for a workload also
\* spec.template and spec.template.spec), and the image of each entry of the
\* containers and initContainers there ("" for an entry without an image).
Kinds == {"Pod", "Deployment", "DaemonSet", "StatefulSet", "ConfigMap"}
Workloads == {"Deployment", "DaemonSet", "StatefulSet"}
NoKind == ""
Entries == UNION {[1..n -> Images \cup {NoImage}] : n \in 0..MaxContainers}

Docs ==
    {d \in [yaml : BOOLEAN, kind : Kinds \cup {NoKind}, meta : BOOLEAN,
            missing : {"", "spec", "template", "podSpec"},
            containers : Entries, initContainers : Entries] :
        d.kind \notin Workloads => d.missing \in {"", "spec"}}

HasImage(img) == img # NoImage

\* An extractImagesFromPod that reads the initContainers first.
extractImagesFromPodInitFirst(hasSpec, containers, initContainers) ==
    IF ~hasSpec THEN <<>>
    ELSE SelectSeq(initContainers, HasImage) \o SelectSeq(containers, HasImage)

\* extractImagesFromPod: no spec, no images; else the images of
\* spec.containers, then those of spec.initContainers.
extractImagesFromPod(hasSpec, containers, initContainers) ==
    IF ~hasSpec THEN <<>>
    ELSE SelectSeq(containers, HasImage) \o SelectSeq(initContainers, HasImage)

\* extractImagesFromDeployment / DaemonSet / StatefulSet: spec, spec.template
\* and spec.template.spec must be maps; then extractImagesFromPod(template).
extractImagesFromWorkload(d) ==
    IF d.missing = "spec" THEN [images |-> <<>>, err |-> "missing spec"]
    ELSE IF d.missing = "template" THEN [images |-> <<>>, err |-> "missing template"]
    ELSE IF d.missing = "podSpec" THEN [images |-> <<>>, err |-> "missing pod spec"]
    ELSE [images |-> extractImagesFromPod(TRUE, d.containers, d.initContainers),
          err |-> "nil"]

\* extractImageFromManifest: parse, kind, the log line that asserts
\* doc["metadata"] to be a map (a run-time panic when it is not), then the
\* switch on kind.
extractImageFromManifest(d) ==
    IF ~d.yaml THEN [images |-> <<>>, err |-> "failed to parse YAML"]
    ELSE IF d.kind = NoKind THEN [images |-> <<>>, err |-> "manifest missing 'kind' field"]
    ELSE IF ~d.meta THEN [images |-> <<>>, err |-> "panic"]
    ELSE IF d.kind = "Pod"
         THEN [images |-> extractImagesFromPod(d.missing # "spec", d.containers,
                                               d.initContainers),
               err |-> "nil"]
    ELSE IF d.kind \in Workloads THEN extractImagesFromWorkload(d)
    ELSE [images |-> <<>>, err |-> "nil"]

\* The loop of extractImagesFromFile over the documents of a file: a document
\* with an error is logged and skipped, the images of the others are appended
\* in order; a panic in a document ends the process.
RECURSIVE extractAllImages(_, _)
extractAllImages(docs, allImages) ==
    IF docs = <<>> THEN [images |-> allImages, err |-> "nil"]
    ELSE LET x == extractImageFromManifest(Head(docs)) IN
         IF x.err = "panic" THEN [images |-> <<>>, err |-> "panic"]
         ELSE IF x.err # "nil" THEN extractAllImages(Tail(docs), allImages)
         ELSE extractAllImages(Tail(docs), allImages \o x.images)

\* What an ImageExtractionEngine worker sends for one input: the ErrorResult
\* on errorChan and `continue`, or else one ImageExtractionResult (Chart,
\* ManifestFile, Image) on outputChan per item of removeDuplicates(images).
S3Sends(chart, manifestFile, x) ==
    IF x.err # "nil" THEN <<[chan |-> "errorChan", chart |-> chart, err |-> x.err]>>
    ELSE LET uniqueImages == removeDuplicates(x.images) IN
         [k \in 1..Len(uniqueImages) |->
            [chan |-> "outputChan", chart |-> chart, manifestFile |-> manifestFile,
             image |-> uniqueImages[k]]]

\* The documents of the files the worker is run on: Pods and ConfigMaps, with
\* or without a metadata map, with up to MaxContainers images.
FileDocs ==
    {d \in Docs : /\ d.yaml /\ d.kind \in {"Pod", "ConfigMap"} /\ d.missing = ""
                  /\ d.initContainers = <<>>
                  /\ \A k \in 1..Len(d.containers) : HasImage(d.containers[k])}
Files == UNION {[1..n -> FileDocs] : n \in 0..MaxDocs}

\* ------------------------------------------- the parts on their own

\* The pipeline at rest while one part is run on its own.
AtRest ==
    /\ workerCount = 1
    /\ params = <<>>
    /\ toSend = <<>>
    /\ cancelled = FALSE
    /\ closed = [c \in Chans |-> FALSE]
    /\ pumpIn = IdlePump
    /\ s1 = Started(1) /\ s2 = Started(1) /\ s3 = Started(1) /\ s4 = Started(1)
    /\ cache = [i \in Images |-> NoResult]
    /\ pending = [i \in Images |-> NoChart]
    /\ wgOpen = {} /\ lockW = {} /\ lockR = {}
    /\ pumpOut = IdlePumpOut
    /\ main = [pc |-> "range", success |-> TRUE, exit |-> -1]
    /\ hist = InitHist
    /\ outputDir = EmptyDir

progVars == <<workerCount, params, cancelled, toSend, closed, pumpIn, s1, s2, s3, s4,
              cache, pending, wgOpen, lockW, lockR, pumpOut, main, hist,
              outputDir>>

\* A part is run once, from the state without a call.
UnitInit == AtRest /\ call = NoCall

\* The fields of a ChartRenderParams that renderSingleChart reads.
ValuesFiles == {"values.yaml", "override.yaml"}
ChartParams ==
    [chartName : {"app", "db"}, repoURL : {"https://example.com/charts"},
     baseValuesFile : ValuesFiles, valuesOverride : ValuesFiles,
     chartVersion : {"1.0.0"}]

\* An argument list with the override file before the base file.
helmArgsOverrideFirst(p) ==
    <<"template", p.chartName, "--release-name", p.chartName, "--repo", p.repoURL,
      "-f", p.valuesOverride, "-f", p.baseValuesFile,
      "--version", p.chartVersion, "--include-crds">>

\* args of renderSingleChart
helmArgs(p) ==
    <<"template", p.chartName, "--release-name", p.chartName, "--repo", p.repoURL,
      "-f", p.baseValuesFile, "-f", p.valuesOverride,
      "--version", p.chartVersion, "--include-crds">>

\* The commands renderSingleChart hands to its executor
\* (CommandContext(ctx, "helm", args...)): none when a values file is missing.
renderCommands(p, baseExists, overrideExists) ==
    IF baseExists /\ overrideExists THEN <<[name |-> "helm", args |-> helmArgs(p)]>>
    ELSE <<>>

\* One iteration of a ChartRenderingEngine worker: renderSingleChart on a
\* chart, for every answer of the file system and of helm, and its send.
RenderCall ==
    /\ call = NoCall
    /\ \E chart \in Charts, p \in ChartParams,
          baseExists, overrideExists, helmOk, absOk, writeOk \in BOOLEAN :
         call' = [fn |-> "renderSingleChart",
                  in |-> [chart |-> chart, params |-> p, baseExists |-> baseExists,
                          overrideExists |-> overrideExists, helmOk |-> helmOk,
                          absOk |-> absOk, writeOk |-> writeOk],
                  calls |-> renderCalls(baseExists, overrideExists, helmOk, absOk, writeOk),
                  commands |-> renderCommands(p, baseExists, overrideExists),
                  sends |-> S1Sends(chart, renderSingleChart(baseExists, overrideExists,
                                                             helmOk, absOk, writeOk))]
    /\ UNCHANGED progVars

\* One iteration of a ManifestValidationEngine worker: validateManifest on a
\* RenderResult, for every answer of the file system and of kubeconform.
ValidateCall ==
    /\ call = NoCall
    /\ \E chart \in Charts, path \in ManifestPaths, fileExists, kubeconformOk \in BOOLEAN :
         call' = [fn |-> "validateManifest",
                  in |-> [chart |-> chart, manifestPath |-> path,
                          fileExists |-> fileExists, kubeconformOk |-> kubeconformOk],
                  sends |-> S2Sends(chart, path, validateManifest(fileExists, kubeconformOk))]
    /\ UNCHANGED progVars

\* extractImageFromManifest on one document.
ExtractCall ==
    /\ call = NoCall
    /\ \E d \in Docs :
         call' = [fn |-> "extractImageFromManifest", in |-> d,
                  out |-> extractImageFromManifest(d)]
    /\ UNCHANGED progVars

\* One iteration of an ImageExtractionEngine worker on a manifest file: the
\* read, the extraction from its documents, the sends. A panic ends the
\* process before any send.
FileCall ==
    /\ call = NoCall
    /\ \E chart \in Charts, path \in ManifestPaths, readOk \in BOOLEAN, docs \in Files :
         LET all == extractAllImages(docs, <<>>)
             x == extractImagesFromFile(readOk, all.images)
             panic == readOk /\ all.err = "panic" IN
         call' = [fn |-> "extractImagesFromFile",
                  in |-> [chart |-> chart, manifestFile |-> path, readOk |-> readOk,
                          docs |-> docs],
                  panic |-> panic,
                  found |-> IF readOk /\ ~panic THEN all.images ELSE <<>>,
                  sends |-> IF panic THEN <<>> ELSE S3Sends(chart, path, x)]
    /\ UNCHANGED progVars

\* The chart names of the ChartSpecs and the strings generateRandomString(6)
\* returns (two of its 62^6 outcomes; every call can return any of them).
ChartNames == {p.chartName : p \in ChartParams}
RandStrs == {"a1b2c3", "x9y8z7"}

\* filepath.Join(absOutputDir, "<chartName>_<randStr>.yaml")
outputPath(chartName, randStr) == <<chartName, randStr>>

\* os.WriteFile(outputPath, output, 0644): creates the file or truncates the
\* one that is there.
WriteFile(files, path, output) ==
    [p \in DOMAIN files \cup {path} |-> IF p = path THEN output ELSE files[p]]

\* The files of the output directory after the writes of the renders, in the
\* order in which the workers come to write.
RECURSIVE WriteAll(_, _, _)
WriteAll(files, order, paths) ==
    IF order = <<>> THEN files
    ELSE WriteAll(WriteFile(files, paths[Head(order)], Head(order)), Tail(order), paths)

Orders == {o \in [1..MaxCharts -> 1..MaxCharts] : \A j, k \in 1..MaxCharts : o[j] = o[k] => j = k}

\* The successful renders of the MaxCharts ChartSpecs of a run: each worker
\* draws its random string and writes helm's output (named by its chart
\* here) to its path; the output directory is empty at Start.
RenderRunCall ==
    /\ call = NoCall
    /\ \E names \in [1..MaxCharts -> ChartNames], rands \in [1..MaxCharts -> RandStrs],
          order \in Orders :
         LET paths == [c \in 1..MaxCharts |-> outputPath(names[c], rands[c])] IN
         call' = [fn |-> "renderRun",
                  in |-> [names |-> names, rands |-> rands, order |-> order],
                  results |-> [c \in 1..MaxCharts |-> [chart |-> c, manifestPath |-> paths[c]]],
                  files |-> WriteAll(<<>>, order, paths)]
    /\ UNCHANGED progVars

\* --------------------------------------------- .tooling/versioning.js

\* A commit message as parseConventionalCommit reads it. Of its first line
\* (trimmed): the word of letters it starts with ("" when it does not start
\* with letters followed by "(", "!" or ":"), the parenthesis after it (none,
\* one with a name in it, an empty one), whether "!" and then ":" follow, and
\* whether anything but white space follows the colon. Of the whole message:
\* whether a line starts with BREAKING CHANGE: or BREAKING-CHANGE:.
TypeWords == {"feat", "feature", "fix", "perf", "refactor", "revert", "docs", "style",
              "test", "chore", "ci", "build", "wip", "FEAT", "Fix"}
Messages ==
    [type : TypeWords \cup {""}, scope : {"none", "named", "empty"}, marker : BOOLEAN,
     colon : BOOLEAN, description : BOOLEAN, footer : BOOLEAN]

\* String.prototype.toLowerCase on the type words.
toLowerCase(w) == CASE w = "FEAT" -> "feat" [] w = "Fix" -> "fix" [] OTHER -> w

Null == [isValid |-> FALSE]

\* parseConventionalCommit: null unless the first line matches
\* /^([a-z]+)(?:\(([^)]+)\))?(!)?:\s*(.+)$/i; breaking is the marker or the
\* BREAKING CHANGE line.
parseConventionalCommit(m) ==
    IF m.type = "" \/ m.scope = "empty" \/ ~m.colon \/ ~m.description THEN Null
    ELSE [isValid |-> TRUE, type |-> toLowerCase(m.type),
          scope |-> IF m.scope = "named" THEN "named" ELSE "null",
          breaking |-> (m.marker \/ m.footer)]

\* A getVersionBump that looks at the type before the breaking change.
getVersionBumpTypeFirst(m, strict) ==
    LET parsed == parseConventionalCommit(m) IN
    IF parsed = Null THEN (IF strict THEN "error" ELSE "patch")
    ELSE IF parsed.type \in {"feat", "feature"} THEN "minor"
    ELSE IF parsed.type \in {"fix", "perf", "refactor", "revert"} THEN "patch"
    ELSE IF parsed.breaking THEN "major"
    ELSE IF parsed.type \in {"docs", "style", "test", "chore", "ci", "build"} THEN "none"
    ELSE "patch"

\* getVersionBump; a throw is the result "error".
getVersionBump(m, strict) ==
    LET parsed == parseConventionalCommit(m) IN
    IF parsed = Null THEN (IF strict THEN "error" ELSE "patch")
    ELSE IF parsed.breaking THEN "major"
    ELSE IF parsed.type \in {"feat", "feature"} THEN "minor"
    ELSE IF parsed.type \in {"fix", "perf", "refactor", "revert"} THEN "patch"
    ELSE IF parsed.type \in {"docs", "style", "test", "chore", "ci", "build"} THEN "none"
    ELSE "patch"

\* The loop of analyzeManyCommits over the messages, with its flags: a throw
\* of getVersionBump ends it, and so does the `break` at the first major.
RECURSIVE analyzeLoop(_, _, _, _)
analyzeLoop(messages, strict, hasMinor, hasPatch) ==
    IF messages = <<>>
    THEN (IF hasMinor THEN "minor" ELSE IF hasPatch THEN "patch" ELSE "none")
    ELSE LET bump == getVersionBump(Head(messages), strict) IN
         IF bump = "error" THEN "error"
         ELSE IF bump = "major" THEN "major"
         ELSE analyzeLoop(Tail(messages), strict, hasMinor \/ bump = "minor",
                          hasPatch \/ bump = "patch")

\* analyzeManyCommits(messages, strict); `given` is false for a missing list
\* (null or undefined).
analyzeManyCommits(given, messages, strict) ==
    IF ~given \/ Len(messages) = 0 THEN "none"
    ELSE analyzeLoop(messages, strict, FALSE, FALSE)

\* The messages of the lists: feat!: .., feat: .., fix: .., chore: .. and a
\* message that is not a conventional commit.
Commit(type, marker) ==
    [type |-> type, scope |-> "none", marker |-> marker, colon |-> TRUE,
     description |-> TRUE, footer |-> FALSE]
RandomMessage ==
    [type |-> "", scope |-> "none", marker |-> FALSE, colon |-> FALSE,
     description |-> FALSE, footer |-> FALSE]
CommitSamples == {Commit("feat", TRUE), Commit("feat", FALSE), Commit("fix", FALSE),
                  Commit("chore", FALSE), RandomMessage}
CommitLists == UNION {[1..n -> CommitSamples] : n \in 0..MaxCommits}

AnalyzeCall ==
    /\ call = NoCall
    /\ \E given, strict \in BOOLEAN, messages \in CommitLists :
         /\ ~given => messages = <<>>
         /\ call' = [fn |-> "analyzeManyCommits",
                     in |-> [given |-> given, messages |-> messages, strict |-> strict],
                     out |-> analyzeManyCommits(given, messages, strict)]
    /\ UNCHANGED progVars

\* A version string as calculateNextVersion reads it: what stands before the
\* first component ("v", "V" or nothing), the components between the dots
\* (each a run of characters: digits, nothing, or a character that is not a
\* digit, written -1) and what follows the last one. The components are below 2^53, where the arithmetic
\* of Number is exact.
SomeDigits == {0, 9}
DigitRuns == UNION {[1..n -> SomeDigits] : n \in 1..MaxDigits}
Components == DigitRuns \cup {<<>>, <<-1>>}
Versions ==
    [prefix : {"", "v", "V"},
     comps : [1..3 -> Components] \cup {<<(<<9>>), (<<9>>)>>},
     tail : {"", "-alpha", "+build"}]
BumpTypes == {"major", "minor", "patch", "none", "bogus"}

IsDigits(run) == run # <<>> /\ \A k \in 1..Len(run) : run[k] \in 0..9

\* parseInt(run, 10) of a run of digits.
RECURSIVE parseInt(_)
parseInt(run) ==
    IF run = <<>> THEN 0 ELSE 10 * parseInt(SubSeq(run, 1, Len(run) - 1)) + run[Len(run)]

\* `${n}`: the decimal digits of a number, without leading zeros.
RECURSIVE ToDigits(_)
ToDigits(n) == IF n < 10 THEN <<n>> ELSE Append(ToDigits(n \div 10), n % 10)

\* versionString.match(/^(\d+)\.(\d+)\.(\d+)(?:-.*)?$/) after the slice of a
\* leading "v".
VersionMatches(v) ==
    /\ v.prefix \in {"", "v"}
    /\ Len(v.comps) = 3
    /\ \A k \in 1..3 : IsDigits(v.comps[k])
    /\ v.tail \in {"", "-alpha"}

Thrown == [err |-> TRUE]
VersionString(hasV, major, minor, patch) ==
    [err |-> FALSE, prefix |-> IF hasV THEN "v" ELSE "",
     comps |-> <<ToDigits(major), ToDigits(minor), ToDigits(patch)>>, tail |-> ""]

\* A calculateNextVersion whose major bump leaves the minor as it is.
calculateNextVersionKeepMinor(currentVersion, bumpType, keepPrefix) ==
    IF ~VersionMatches(currentVersion) THEN Thrown
    ELSE LET hasPrefix == currentVersion.prefix = "v"
             major == parseInt(currentVersion.comps[1])
             minor == parseInt(currentVersion.comps[2])
             patch == parseInt(currentVersion.comps[3])
             v == hasPrefix /\ keepPrefix IN
         CASE bumpType = "major" -> VersionString(v, major + 1, minor, 0)
           [] bumpType = "minor" -> VersionString(v, major, minor + 1, 0)
           [] bumpType = "patch" -> VersionString(v, major, minor, patch + 1)
           [] bumpType = "none" -> VersionString(v, major, minor, patch)
           [] OTHER -> Thrown

\* calculateNextVersion; a throw is the result Thrown.
calculateNextVersion(currentVersion, bumpType, keepPrefix) ==
    IF ~VersionMatches(currentVersion) THEN Thrown
    ELSE LET hasPrefix == currentVersion.prefix = "v"
             major == parseInt(currentVersion.comps[1])
             minor == parseInt(currentVersion.comps[2])
             patch == parseInt(currentVersion.comps[3])
             v == hasPrefix /\ keepPrefix IN
         CASE bumpType = "major" -> VersionString(v, major + 1, 0, 0)
           [] bumpType = "minor" -> VersionString(v, major, minor + 1, 0)
           [] bumpType = "patch" -> VersionString(v, major, minor, patch + 1)
           [] bumpType = "none" -> VersionString(v, major, minor, patch)
           [] OTHER -> Thrown

NextVersionCall ==
    /\ call = NoCall
    /\ \E v \in Versions, bumpType \in BumpTypes, keepPrefix \in BOOLEAN :
         call' = [fn |-> "calculateNextVersion",
                  in |-> [currentVersion |-> v, bumpType |-> bumpType,
                          keepPrefix |-> keepPrefix],
                  out |-> calculateNextVersion(v, bumpType, keepPrefix)]
    /\ UNCHANGED progVars

BumpCall ==
    /\ call = NoCall
    /\ \E m \in Messages, strict \in BOOLEAN :
         call' = [fn |-> "getVersionBump", in |-> [message |-> m, strict |-> strict],
                  out |-> getVersionBump(m, strict)]
    /\ UNCHANGED progVars

\* ------------------------------------------- .tooling/detect-changes.js

\* The entries at the root of the repository: each name is a file, a
\* directory or a directory with a Dockerfile in it.
RootNames == {".tooling", ".github", "chartvalidator", "node"}
RootDirs ==
    {r \in [RootNames -> {"file", "dir", "dirWithDockerfile"}] :
        /\ r[".tooling"] # "file"
        /\ r[".github"] = "dirWithDockerfile"
        /\ r["chartvalidator"] # "file"
        /\ r["node"] # "dir"}

\* entry.name.startsWith('.')
startsWithDot(name) == name \in {".tooling", ".github"}

\* getBuildableFolders: the directories that are not hidden, are not
\* .tooling and hold a Dockerfile (sorted; the order is left out here).
getBuildableFolders(root) ==
    {name \in RootNames : /\ root[name] # "file"
                          /\ ~startsWithDot(name)
                          /\ name # ".tooling"
                          /\ root[name] = "dirWithDockerfile"}

\* The paths `git diff --name-only` can print, as their components.
DiffPaths == {<<"chartvalidator", "main.go">>, <<"node", "Dockerfile">>,
              <<"README.md">>, <<".tooling", "test.js">>}

\* getChangedFiles: the lines of git's output; runGit returns '' when the
\* command fails, which gives no files.
getChangedFiles(gitOk, diff) == IF gitOk THEN diff ELSE {}

\* file.startsWith(`${folder}/`)
startsWithFolder(file, folder) == Len(file) >= 2 /\ file[1] = folder

\* filterChangedFolders
filterChangedFolders(allFolders, changedFiles) ==
    {folder \in allFolders : \E file \in changedFiles : startsWithFolder(file, folder)}

\* main: what it prints to stdout.
detectChanges(mode, eventName, baseRef, root, gitOk, diff) ==
    LET allFolders == getBuildableFolders(root) IN
    IF mode = "list" THEN allFolders
    ELSE IF eventName = "workflow_dispatch" \/ baseRef = "" THEN allFolders
    ELSE LET changedFiles == getChangedFiles(gitOk, diff) IN
         IF changedFiles = {} THEN allFolders
         ELSE filterChangedFolders(allFolders, changedFiles)

DetectCall ==
    /\ call = NoCall
    /\ \E mode \in {"list", "detect"}, eventName \in {"", "push", "workflow_dispatch"},
          baseRef \in {"", "abc123"}, root \in RootDirs, gitOk \in BOOLEAN,
          diff \in SUBSET DiffPaths :
         call' = [fn |-> "detect-changes",
                  in |-> [mode |-> mode, eventName |-> eventName, baseRef |-> baseRef,
                          root |-> root, gitOk |-> gitOk, diff |-> diff],
                  out |-> detectChanges(mode, eventName, baseRef, root, gitOk, diff)]
    /\ UNCHANGED progVars

\* ------------------------------ the chart descriptor through the stages

\* ChartRenderParams with all its fields, as findChartsInAppsets makes them.
Envs == {"dev", "prod"}
ChartSpecs ==
    [env : Envs, chartName : {"app", "db"}, repoURL : {"https://example.com/charts"},
     chartVersion : {"1.0.0"}, baseValuesFile : ValuesFiles, valuesOverride : ValuesFiles]

\* A copy of the instruction's chart that leaves Env at its zero value.
ChartRenderParamsOfNoEnv(instruction) ==
    [env |-> "",
     chartName |-> instruction.chart.chartName,
     repoURL |-> instruction.chart.repoURL,
     chartVersion |-> instruction.chart.chartVersion,
     baseValuesFile |-> instruction.chart.baseValuesFile,
     valuesOverride |-> instruction.chart.valuesOverride]

\* The ChartRenderParams literal that pumpAppCheckInstructionsToChartRenderer
\* builds from an AppCheckInstruction, field by field.
ChartRenderParamsOf(instruction) ==
    [env |-> instruction.chart.env,
     chartName |-> instruction.chart.chartName,
     repoURL |-> instruction.chart.repoURL,
     chartVersion |-> instruction.chart.chartVersion,
     baseValuesFile |-> instruction.chart.baseValuesFile,
     valuesOverride |-> instruction.chart.valuesOverride]

\* The image lists extractImagesFromFile finds in the manifests of the
\* ChartSpecs that are followed through the stages.
FoundImages == {<<>>, <<"nginx:1.20">>, <<"nginx:1.20", "redis:6.2", "nginx:1.20">>}

\* What a stage received, given what the stage before it sent on its result
\* channel (nothing after an ErrorResult).
Forwarded(sends) == {m \in {sends[k] : k \in 1..Len(sends)} : m.chan # "errorChan"}

\* One ChartSpec followed from the coordinator's input to the output of the
\* ImageExtractionEngine: the input pump's copy, then one iteration of a
\* worker of S1, S2 and S3, each on what the stage before it sent, for every
\* answer of helm, the file system and kubeconform.
ForwardCall ==
    /\ call = NoCall
    /\ \E p \in ChartSpecs, path \in ManifestPaths,
          helmOk, fileExists, kubeconformOk, readOk \in BOOLEAN, images \in FoundImages :
         LET pumped == ChartRenderParamsOf([chart |-> p])
             s1sends == S1Sends(pumped, renderSingleChart(TRUE, TRUE, helmOk, TRUE, TRUE))
             s2sends == IF Forwarded(s1sends) = {} THEN <<>>
                        ELSE S2Sends(s1sends[1].chart, path,
                                     validateManifest(fileExists, kubeconformOk))
             s3sends == IF Forwarded(s2sends) = {} THEN <<>>
                        ELSE S3Sends(s2sends[1].chart, s2sends[1].manifestFile,
                                     extractImagesFromFile(readOk, images))
         IN call' = [fn |-> "forward",
                     in |-> [chart |-> p, manifestPath |-> path, helmOk |-> helmOk,
                             fileExists |-> fileExists, kubeconformOk |-> kubeconformOk,
                             readOk |-> readOk, images |-> images],
                     pumped |-> pumped,
                     s1 |-> s1sends, s2 |-> s2sends, s3 |-> s3sends]
    /\ UNCHANGED progVars

UnitNext ==
    \/ RenderCall \/ ValidateCall \/ ExtractCall \/ FileCall \/ RenderRunCall
    \/ AnalyzeCall \/ BumpCall \/ NextVersionCall \/ DetectCall \/ ForwardCall

UnitSpec == UnitInit /\ [][UnitNext]_vars

\* ------------------------------------------------- what a state shows

\* ---------------------- the render-only command (runAllChartRenders)
\*
\* runAllChartRenders removes the output directory, builds a
\* ChartRenderingEngine on context.Background(), calls Start, sends the
\* ChartSpecs from a goroutine of its own and collects what the workers send
\* in a select over resultChan and errorChan. The renderer's inputChan and
\* resultChan are the channels "s1in" and "s1out".

\* A stage before its Start.
NotStarted == Started(0)

\* The path of a file an earlier run left in the output directory, and the
\* paths outputPath can give the manifest of a chart (the random suffix is
\* drawn anew for every render, so two renders can be given one path).
StalePath == 0
OutputPaths == 1..MaxCharts

RenderVars == <<workerCount, params, cancelled, pumpIn, s2, s3, s4, cacheVars, pumpOut, call>>

InitRender ==
    /\ workerCount \in 1..MaxWorkers
    /\ params \in {[k \in 1..n |-> k] : n \in 0..MaxCharts}
    /\ toSend = params
    /\ cancelled = FALSE
    /\ closed = [c \in Chans |-> FALSE]
    /\ pumpIn = IdlePump
    /\ s1 = NotStarted /\ s2 = NotStarted /\ s3 = NotStarted /\ s4 = NotStarted
    /\ cache = [i \in Images |-> NoResult]
    /\ pending = [i \in Images |-> NoChart]
    /\ wgOpen = {} /\ lockW = {} /\ lockR = {}
    /\ pumpOut = IdlePumpOut
    /\ main = [pc |-> "removeAll", lines |-> {}, count |-> 0]
    /\ hist = InitHist
    /\ call = NoCall
    /\ outputDir \in {[exists |-> FALSE, files |-> {}],
                      EmptyDir,
                      [exists |-> TRUE, files |-> {StalePath}]}

\* os.RemoveAll(outputDir) of runAllChartRenders (and of runAllChartChecks);
\* the command returns the error when the removal fails.
RenderRemoveAll ==
    /\ main.pc = "removeAll"
    /\ \E ok \in BOOLEAN :
         IF ok THEN /\ outputDir' = [exists |-> FALSE, files |-> {}]
                    /\ main' = [main EXCEPT !.pc = "start"]
               ELSE /\ main' = [main EXCEPT !.pc = "failed"]
                    /\ UNCHANGED outputDir
    /\ UNCHANGED <<RenderVars, toSend, closed, s1, hist>>

\* A Start that starts its workers at once, without recreateOutputDir.
StartWithoutRecreate ==
    /\ main.pc = "start"
    /\ s1' = Started(workerCount)
    /\ main' = [main EXCEPT !.pc = "loop"]
    /\ UNCHANGED <<RenderVars, toSend, closed, hist, outputDir>>

\* ChartRenderingEngine.Start, first half: recreateOutputDir (os.RemoveAll,
\* then os.MkdirAll); Start panics when either fails.
StartRecreate ==
    /\ main.pc = "start"
    /\ \E removeOk, mkdirOk \in BOOLEAN :
         /\ outputDir' = IF ~removeOk THEN outputDir
                         ELSE [exists |-> mkdirOk, files |-> {}]
         /\ main' = [main EXCEPT !.pc = IF removeOk /\ mkdirOk THEN "spawn" ELSE "panic"]
    /\ UNCHANGED <<RenderVars, toSend, closed, s1, hist>>

\* ChartRenderingEngine.Start, second half: the loop of go engine.worker(i)
\* and go engine.allDoneWorker(); Start returns and the command starts its
\* sending goroutine and enters its collection loop.
StartWorkers ==
    /\ main.pc = "spawn"
    /\ s1' = Started(workerCount)
    /\ main' = [main EXCEPT !.pc = "loop"]
    /\ UNCHANGED <<RenderVars, toSend, closed, hist, outputDir>>

\* renderer.inputChan <- p of the sending goroutine, received by the select of
\* a worker, which runs renderSingleChart (os.WriteFile creates the file at
\* the manifest's path, or truncates the one that is there) and goes to its
\* send.
RenderSend ==
    /\ main.pc \in {"loop", "done"}
    /\ toSend # <<>>
    /\ s1.idle > 0
    /\ \E baseExists, overrideExists, helmOk, absOk, writeOk \in BOOLEAN, path \in OutputPaths :
         LET err == renderSingleChart(baseExists, overrideExists, helmOk, absOk, writeOk)
             wrote == baseExists /\ overrideExists /\ helmOk /\ absOk /\ writeOk
         IN /\ writeOk => outputDir.exists
            /\ s1' = Take(s1, [chart |-> Head(toSend),
                               pc |-> IF err = "nil" THEN "sendOut" ELSE "sendErr",
                               err |-> err])
            /\ outputDir' = IF wrote THEN [outputDir EXCEPT !.files = @ \cup {path}]
                            ELSE outputDir
            /\ hist' = IF wrote THEN [hist EXCEPT !.written = @ \cup {path}]
                        ELSE Erred(hist, Head(toSend), err)
    /\ toSend' = Tail(toSend)
    /\ UNCHANGED <<RenderVars, closed, main>>

\* close(renderer.inputChan) at the end of the sending goroutine
RenderSenderClose ==
    /\ main.pc \in {"loop", "done"}
    /\ toSend = <<>>
    /\ ~closed["s1in"]
    /\ closed' = [closed EXCEPT !["s1in"] = TRUE]
    /\ hist' = [hist EXCEPT !.closes["s1in"] = @ + 1]
    /\ UNCHANGED <<RenderVars, toSend, s1, main, outputDir>>

\* An outcome line of the collection loop: its mark and the chart it names.
Line(mark, chart) == <<mark, chart>>
WriteLine(m, line) == [m EXCEPT !.lines = @ \cup {line}, !.count = @ + 1]

\* case renderResult, ok := <-renderer.resultChan with ok, meeting the send
\* of a worker: the success line.
CollectResult(r) ==
    /\ main.pc = "loop"
    /\ r.pc = "sendOut"
    /\ s1' = Release(s1, r)
    /\ main' = WriteLine(main, Line("ok", r.chart))
    /\ UNCHANGED <<RenderVars, toSend, closed, hist, outputDir>>

\* case renderErr := <-renderer.errorChan, meeting the send of a worker: the
\* error line.
CollectError(r) ==
    /\ main.pc = "loop"
    /\ r.pc = "sendErr"
    /\ s1' = Release(s1, r)
    /\ main' = WriteLine(main, Line("err", r.chart))
    /\ UNCHANGED <<RenderVars, toSend, closed, hist, outputDir>>

\* case renderResult, ok := <-renderer.resultChan with !ok: busy = false, and
\* the statement after the if, the Printf of the success line, runs on the
\* zero RenderResult before the loop tests busy.
CollectClosed ==
    /\ main.pc = "loop"
    /\ closed["s1out"]
    /\ main' = [WriteLine(main, Line("ok", NoChart)) EXCEPT !.pc = "done"]
    /\ UNCHANGED <<RenderVars, toSend, closed, s1, hist, outputDir>>

NextRender ==
    \/ RenderRemoveAll
    \/ StartRecreate
    \/ StartWorkers
    \/ RenderSend
    \/ RenderSenderClose
    \/ S1InputClosed
    \/ S1AllDone
    \/ \E r \in s1.busy : CollectResult(r)
    \/ \E r \in s1.busy : CollectError(r)
    \/ CollectClosed

SpecRender == InitRender /\ [][NextRender]_vars

\* No step of the program is possible: every goroutine has returned or is
\* blocked for good. Every step consumes something (an unsent ChartSpec, a
\* held input, a worker in its select, an open channel), so under FairSpec
\* every run ends in such a state, and a stable condition is reached
\* eventually exactly when it holds in every such state.
Quiescent == ~ENABLED Progress

Range(f) == {f[k] : k \in DOMAIN f}

\* The error channel the three stages share (errorChan of NewAppCheckerEngine)
\* has no receiver: the coordinator stores another channel and the caller
\* ranges over resultChan only. The envelopes that were received:
ErrorsReceived == {}

\* ChartSpecs a ChartRenderingEngine worker has received.
EnteredS1 == Range(params) \ (Range(toSend) \cup {pumpIn.chart})

\* Charts for which a stage built an ErrorResult (its worker stays in the send).
Failed == {r.chart : r \in {x \in s1.busy \cup s2.busy : x.pc = "sendErr"}}
          \cup {r.chart : r \in {x \in s3.busy : x.pc = "sendErr"}}

\* Charts on their way through S1..S3.
Upstream == Range(toSend) \cup {pumpIn.chart}
            \cup {r.chart : r \in s1.busy \cup s2.busy}
            \cup {r.chart : r \in s3.busy}

\* The ImageRef an S4 worker answers: its input, and once it is in its send
\* the image of the result it sends, for the input's chart.
Holding(r) == IF r.pc = "sendOut" THEN <<r.chart, r.out.image>> ELSE Ref(r)
InS4(ref) == Cardinality({r \in s4.busy : Holding(r) = ref})
InPumpOut(ref) == IF pumpOut.pc = "send" /\ <<pumpOut.ref, pumpOut.res.image>> = ref
                  THEN 1 ELSE 0

AllReturned ==
    /\ s1.done = workerCount
    /\ s2.done = workerCount
    /\ s3.done = workerCount
    /\ s4.done = workerCount

\* ------------------------------------------------------------- claims

\* C1: for every image string the registry inspector runs at most once in a
\* run, however many ImageRefs name it and however the S4 workers interleave.
C1_InspectAtMostOnce == \A i \in Images : hist.inspectCount[i] <= 1

\* C2: every VerifyResult S4 sends carries the chart of the ImageRef its
\* worker is processing (leader, released waiter and cache hit alike).
C2_ResultCarriesOwnChart ==
    \A r \in s4.busy : r.pc = "sendOut" => r.out.chart = r.chart

\* C3: the caller sends its ChartSpecs, closes the input and keeps receiving;
\* the context is not cancelled. Then the result channel is closed in the end:
\* the program cannot come to rest with the result channel open.
C3_ResultChanCloses ==
    (~cancelled /\ Quiescent) => closed["resultChan"]

\* C4: every ChartSpec that entered S1 has, when the program has come to rest,
\* an outcome with the caller: an entry naming it on the result channel or
\* its ErrorEnvelope received.
C4_NoChartDropped ==
    (~cancelled /\ Quiescent) =>
        \A c \in EnteredS1 : c \in hist.tagged \/ c \in ErrorsReceived

\* C5: a failing chart never keeps another chart from completing: when the
\* program has come to rest, every chart of the run that did not fail in S1,
\* S2 or S3 is through the three stages and each of its ImageRefs has its
\* entry with the caller.
C5_OthersComplete ==
    (~cancelled /\ Quiescent) =>
        \A c \in Range(params) \ Failed :
            /\ c \notin Upstream
            /\ \A i \in Images : <<c, i>> \in hist.refs => hist.served[<<c, i>>] >= 1

\* C6: after the root context is cancelled every worker of every stage
\* returns: the program cannot come to rest with a worker that has not.
C6_CancelReturnsWorkers ==
    (cancelled /\ Quiescent) => AllReturned

\* C7: the context is cancelled while the caller still has ChartSpecs to
\* send; the caller sends them, closes the input and keeps receiving. Then the
\* result channel is closed and both pumps of the coordinator have returned.
C7_CancelNoDeadlock ==
    (cancelled /\ hist.midRun /\ Quiescent) =>
        /\ closed["resultChan"]
        /\ pumpIn.pc = "done"
        /\ pumpOut.pc = "done"

C9_SameAnswerPerImage == \A i \in Images : Cardinality(hist.emitted[i]) <= 1

\* C10: the command ends, with exit code 0 exactly when no chart failed in
\* S1, S2 or S3 and every verified image exists, and with 1 otherwise.
C10_ExitCode ==
    (~cancelled /\ Quiescent) =>
        /\ main.pc = "exit"
        /\ main.exit = IF Failed = {} /\ \A i \in Images :
                                           \A a \in hist.emitted[i] : a[1]
                       THEN 0 ELSE 1


\* The goroutines that send on a channel, and whether all of them are through:
\* the caller's goroutine, the input pump, the workers of a stage, both pumps.
OwnersReturned(ch) ==
    CASE ch = "inputChan" -> toSend = <<>>
      [] ch = "s1in" -> pumpIn.pc = "done"
      [] ch = "s1out" -> s1.done = workerCount
      [] ch = "s2out" -> s2.done = workerCount
      [] ch = "s3out" -> s3.done = workerCount
      [] ch = "s4out" -> s4.done = workerCount
      [] ch = "resultChan" -> pumpIn.pc = "done" /\ pumpOut.pc = "done"

\* A goroutine is in a send on the channel.
SenderOn(ch) ==
    CASE ch = "inputChan" -> toSend # <<>>
      [] ch = "s1in" -> pumpIn.pc = "send"
      [] ch = "s1out" -> \E r \in s1.busy : r.pc = "sendOut"
      [] ch = "s2out" -> \E r \in s2.busy : r.pc = "sendOut"
      [] ch = "s3out" -> \E r \in s3.busy : r.pc = "sendOut"
      [] ch = "s4out" -> \E r \in s4.busy : r.pc = "sendOut"
      [] ch = "resultChan" -> pumpOut.pc = "send"

\* A worker is in its send on the error channel.
SenderOnErrorChan ==
    \/ \E r \in s1.busy \cup s2.busy : r.pc = "sendErr"
    \/ \E r \in s3.busy : r.pc = "sendErr"

\* The workers of a stage are its Start(workerCount) workers.
WorkersCounted(s) == s.idle + s.done + Cardinality(s.busy) = workerCount

\* C11: every channel is closed at most once, and it is closed only when all
\* the goroutines of its upstream owner have returned (for S1's input the
\* input pump, for the result channel both pumps of the coordinator).
C11_ClosedOnceByOwner ==
    \A ch \in Chans :
        /\ hist.closes[ch] <= 1
        /\ closed[ch] <=> hist.closes[ch] = 1
        /\ closed[ch] => OwnersReturned(ch)

\* C11's case: a run without cancellation in which results were delivered
\* and every channel has been closed.
C11_Witness ==
    /\ ~cancelled
    /\ \A ch \in Chans : closed[ch]
    /\ \E ref \in Charts \X Images : hist.served[ref] = 1

\* C12: no goroutine is in a send on a closed channel, cancelled or not; the
\* workers of a stage are never more nor fewer than it started.
C12_NoSendOnClosed ==
    /\ \A ch \in Chans : closed[ch] => ~SenderOn(ch)
    /\ WorkersCounted(s1) /\ WorkersCounted(s2)
    /\ WorkersCounted(s3) /\ WorkersCounted(s4)

\* C12's case: the context was cancelled after a result was delivered, and
\* the result channel has been closed.
C12_Witness ==
    /\ cancelled
    /\ closed["resultChan"]
    /\ \E ref \in Charts \X Images : hist.served[ref] = 1

\* C13: when the result channel is closed, S1's input and the outputs of S1
\* to S4 are closed and no goroutine is in a send on one of them or on the
\* error channel.
C13_UpstreamDrained ==
    closed["resultChan"] =>
        /\ \A ch \in Chans \ {"resultChan"} : closed[ch] /\ ~SenderOn(ch)
        /\ ~SenderOnErrorChan


\* The S4 workers that came to their send through waitForPending, and the
\* leader each of them waited for.
Waiters == {r \in s4.busy : r.waitOn # NoChart}
LeaderOf(r) == <<r.waitOn, r.image>>

\* C14, no hang: the WaitGroup a waiter waits on is open only while its
\* leader is between its insert into pending and its store, so the leader's
\* Done comes.
C14_WaiterReleased ==
    \A r \in Waiters :
        (r.pc = "wgWait" /\ LeaderOf(r) \in wgOpen) =>
            \E l \in s4.busy : /\ Ref(l) = LeaderOf(r)
                               /\ l.pc \in {"inspect", "storeLock", "store"}

\* C14, after the release: the image is in the cache, so waitForPending
\* never comes to its `no result found` return.
C14_CachePresent ==
    \A r \in Waiters : r.pc \in {"wfpRLock2", "wfpRead"} => InCache(r.image)

\* C14, the result: the waiter sends its leader's (exists, error).
C14_LeadersAnswer ==
    \A r \in Waiters :
        r.pc = "sendOut" => <<r.out.exists, r.out.err>> = hist.led[LeaderOf(r)]

\* C14: no waiter hangs in S4: a waiter is released once its leader's
\* inspection has returned (with success, failure or a cancellation error),
\* finds the image in the cache and sends a VerifyResult with the leader's
\* (exists, error); `no result found after waiting` is never reached.
C14_NoWaiterHangs ==
    /\ C14_WaiterReleased
    /\ C14_CachePresent
    /\ C14_LeadersAnswer
    /\ Quiescent => \A r \in s4.busy : r.pc # "wgWait"


\* exists is true exactly when the error is nil.
Coherent(res) == res.exists <=> res.err = "nil"

\* C15: in every VerifyResult (built by a leader, stored in the cache, read by
\* a waiter or a cache hit, emitted) exists is true exactly when the
\* inspector's error is nil, i.e. when it exited with status 0; so the
\* coordinator never meets a result with nil error and exists = false, and an
\* entry with an error is never counted as a success.
C15_ExistsIffNoError ==
    /\ \A r \in s4.busy : r.out # NoResult => Coherent(r.out)
    /\ \A i \in Images : InCache(i) => Coherent(cache[i])
    /\ \A i \in Images : \A a \in hist.emitted[i] : a[1] <=> a[2] = "nil"
    /\ pumpOut.pc = "send" => pumpOut.res.err # "docker image does not exist"
    /\ (\E i \in Images : \E a \in hist.emitted[i] : ~a[1]) /\ pumpOut.pc # "send"
           => ~main.success

\* C15's case: the inspector failed for an image (non-zero exit), and the
\* caller has received the entry: exists = false with the inspector's error.
C15_Witness ==
    /\ \E i \in Images : <<FALSE, "exit">> \in hist.emitted[i]
    /\ \E ref \in Charts \X Images : hist.served[ref] = 1
    /\ ~main.success


\* C16: for a ChartSpec whose base values file or values override file is
\* missing, the S1 worker sends exactly one message, the ErrorEnvelope of that
\* chart naming the missing file (the base file when both are missing: it is
\* checked first), and no RenderResult; helm is not invoked and no manifest
\* file is written.
C16_MissingValuesFile ==
    call.fn = "renderSingleChart" /\ (~call.in.baseExists \/ ~call.in.overrideExists) =>
        /\ call.sends =
             <<[chan |-> "errorChan", chart |-> call.in.chart,
                err |-> IF ~call.in.baseExists
                        THEN "base values file does not exist"
                        ELSE "values override file does not exist"]>>
        /\ call.calls[1] = "FileExists(BaseValuesFile)"
        /\ \A k \in 1..Len(call.calls) : call.calls[k] \notin {"helm", "os.WriteFile"}

\* C16's case: a chart both of whose values files are missing was rendered.
C16_Witness ==
    /\ call.fn = "renderSingleChart"
    /\ ~call.in.baseExists /\ ~call.in.overrideExists
    /\ Len(call.sends) = 1


\* The charts the workers of a stage hold, and the workers of S1..S3 that are
\* in the send of a successful result for a chart.
ChartsIn(s) == {r.chart : r \in s.busy}
Passing(s, c) == \E r \in s.busy : r.chart = c /\ r.pc = "sendOut" /\ r.err = "nil"

\* A chart that failed in S1, S2 or S3 is nowhere downstream.
C17_FailedStopsThere ==
    \A c \in Failed :
        /\ c \notin hist.tagged
        /\ \A i \in Images : /\ <<c, i>> \notin hist.refs
                             /\ hist.recv[<<c, i>>] = 0
                             /\ hist.served[<<c, i>>] = 0
        /\ \A r \in s4.busy : r.chart # c /\ r.out.chart # c
        /\ pumpOut.ref # c /\ pumpOut.res.chart # c
        /\ Cardinality({s \in {"s1", "s2", "s3"} :
                           c \in ChartsIn(CASE s = "s1" -> s1 [] s = "s2" -> s2
                                            [] OTHER -> s3)}) = 1

\* Every step hands a chart on only from the stage before it, after success.
C17_HandedOnInOrder ==
    /\ \A c \in ChartsIn(s2)' \ ChartsIn(s2) : Passing(s1, c)
    /\ \A c \in ChartsIn(s3)' \ ChartsIn(s3) : Passing(s2, c)
    /\ \A ref \in hist.refs' \ hist.refs : Passing(s2, ref[1])
    /\ \A ref \in Charts \X Images :
         hist.recv'[ref] > hist.recv[ref] => ref \in hist.refs /\ Passing(s3, ref[1])
    /\ \A c \in hist.tagged' : \E i \in Images : hist.recv[<<c, i>>] > 0

\* C17: stage gating. A chart reaches S2 only after its render succeeded and
\* S3 only after its validation then succeeded; ImageRefs, VerifyResults and
\* result entries exist only for charts that came that way; a chart that
\* failed in S1, S2 or S3 has no entry downstream of the stage it failed in.
C17_StageGating == []C17_FailedStopsThere /\ [][C17_HandedOnInOrder]_vars

\* C17's case: a chart failed its validation in S2 while an entry of another
\* chart has reached the caller.
C17_Witness ==
    /\ \E r \in s2.busy : r.pc = "sendErr"
    /\ \E ref \in Charts \X Images : hist.served[ref] = 1


\* C18: for one RenderResult the S2 worker sends exactly one message: an
\* ErrorEnvelope for the chart on the error channel when the manifest file is
\* missing or kubeconform fails, and otherwise a ValidationResult on its
\* output with the input's chart, the input's manifest path and a nil error.
C18_OneMessage ==
    call.fn = "validateManifest" =>
        /\ Len(call.sends) = 1
        /\ LET m == call.sends[1] IN
           IF call.in.fileExists /\ call.in.kubeconformOk
           THEN m = [chan |-> "resultChan", chart |-> call.in.chart,
                     manifestFile |-> call.in.manifestPath, err |-> "nil"]
           ELSE /\ m.chan = "errorChan"
                /\ m.chart = call.in.chart
                /\ m.err = IF ~call.in.fileExists THEN "manifest file does not exist"
                           ELSE "kubeconform command failed"

\* C18's case: the manifest is there and kubeconform rejected it.
C18_Witness ==
    /\ call.fn = "validateManifest"
    /\ call.in.fileExists /\ ~call.in.kubeconformOk
    /\ call.sends[1].chan = "errorChan"


\* A document extractImageFromManifest can process: it parses, has a kind and
\* a metadata map, and a workload has its spec.template.spec.
Complete(d) ==
    /\ d.yaml /\ d.kind # NoKind /\ d.meta
    /\ d.kind \in Workloads => d.missing = ""

\* C19: the extraction dispatches on kind. For a Pod it returns the image of
\* every entry of spec.containers, then of every entry of spec.initContainers
\* (nothing without a spec); for a Deployment, DaemonSet or StatefulSet the
\* same from spec.template; for any other kind no images; no error in all
\* these cases.
C19_DispatchOnKind ==
    call.fn = "extractImageFromManifest" /\ Complete(call.in) =>
        LET d == call.in
            listed == SelectSeq(d.containers \o d.initContainers, HasImage) IN
        /\ call.out.err = "nil"
        /\ call.out.images =
             IF d.kind \in Workloads \/ (d.kind = "Pod" /\ d.missing = "")
             THEN listed ELSE <<>>

\* C19's case: a DaemonSet with an image in its containers and another in
\* its initContainers.
C19_Witness ==
    /\ call.fn = "extractImageFromManifest"
    /\ call.in.kind = "DaemonSet" /\ Complete(call.in)
    /\ call.in.containers = <<"redis:6.2">>
    /\ call.in.initContainers = <<"nginx:1.20">>
    /\ call.out.images = <<"redis:6.2", "nginx:1.20">>


\* The place of an item's first occurrence in a sequence that holds it.
FirstIndex(seq, x) == CHOOSE k \in 1..Len(seq) :
                          seq[k] = x /\ \A j \in 1..(k - 1) : seq[j] # x

\* C20: for a manifest file that was read and whose documents were processed,
\* the S3 worker sends exactly one ImageRef per distinct image found in the
\* documents of the file, in the order of the images' first occurrences, each
\* with the input's chart and manifest path; an image found several times, in
\* one document or in several, is sent once.
C20_OneRefPerImage ==
    call.fn = "extractImagesFromFile" /\ call.in.readOk /\ ~call.panic =>
        LET sends == call.sends
            found == call.found IN
        /\ \A k \in 1..Len(sends) :
             /\ sends[k].chan = "outputChan"
             /\ sends[k].chart = call.in.chart
             /\ sends[k].manifestFile = call.in.manifestFile
        /\ {sends[k].image : k \in 1..Len(sends)} = Range(found)
        /\ Len(sends) = Cardinality(Range(found))
        /\ \A j, k \in 1..Len(sends) :
             j < k => FirstIndex(found, sends[j].image) < FirstIndex(found, sends[k].image)

\* C20's case: a file of two documents; redis:6.2 occurs twice in the first,
\* nginx:1.20 is new in the second, which also repeats redis:6.2.
C20_Witness ==
    /\ call.fn = "extractImagesFromFile"
    /\ call.found = <<"redis:6.2", "redis:6.2", "nginx:1.20", "redis:6.2">>
    /\ Len(call.in.docs) = 2
    /\ Len(call.sends) = 2
    /\ call.sends[1].image = "redis:6.2"


\* The images the documents of a file contribute: those listed in the
\* documents that can be processed.
ImagesOf(d) ==
    IF Complete(d) /\ (d.kind \in Workloads \/ (d.kind = "Pod" /\ d.missing = ""))
    THEN {img \in Range(d.containers \o d.initContainers) : HasImage(img)}
    ELSE {}

\* C21: in S3 a document that cannot be processed (unparsable, no kind, a
\* workload without spec/template, no metadata map) contributes no images and
\* is only a warning: the extraction from it returns, the other documents of
\* the file are processed and their images sent, the worker keeps running and
\* sends no ErrorEnvelope; only a failed read of the file gives an
\* ErrorEnvelope (one, for the chart).
C21_BadDocumentIsWarning ==
    /\ call.fn = "extractImageFromManifest" /\ ~Complete(call.in) =>
         call.out.err # "panic" /\ call.out.images = <<>>
    /\ call.fn = "extractImagesFromFile" =>
         /\ ~call.panic
         /\ call.in.readOk =>
              /\ \A k \in 1..Len(call.sends) : call.sends[k].chan = "outputChan"
              /\ {call.sends[k].image : k \in 1..Len(call.sends)} =
                   UNION {ImagesOf(d) : d \in Range(call.in.docs)}
         /\ ~call.in.readOk =>
              /\ Len(call.sends) = 1
              /\ call.sends[1].chan = "errorChan"
              /\ call.sends[1].chart = call.in.chart


\* C22: with empty input (the caller closes the coordinator's input without
\* sending a ChartSpec) no entry is ever delivered, and the run cannot come to
\* rest before the result channel is closed and every worker of every stage
\* has returned.
C22_EmptyInput ==
    params = <<>> =>
        /\ \A ref \in Charts \X Images : hist.served[ref] = 0
        /\ hist.tagged = {}
        /\ pumpOut.pc # "send"
        /\ Quiescent => closed["resultChan"] /\ AllReturned

\* C22's case: a run without ChartSpecs and without cancellation has ended:
\* the result channel is closed, the caller's loop is over, all workers have
\* returned.
C22_Witness ==
    /\ params = <<>> /\ ~cancelled
    /\ closed["inputChan"] /\ closed["resultChan"]
    /\ AllReturned
    /\ main.pc = "exit"


\* What the inspector answered for an image in this run (the answers the
\* leaders stored), and the error of the entry the coordinator builds from an
\* answer.
Answers(i) == {hist.led[ref] : ref \in Charts \X {i}} \ {<<>>}
EntryErr(a) == AppCheckResultOf([chart |-> NoChart, image |-> NoImage,
                                 exists |-> a[1], err |-> a[2]]).err

\* C23: with a deterministic inspector (all its runs for an image give the
\* same answer) the set of outcomes the caller has received when the result
\* channel is closed is fixed by the input, whatever the schedule: one outcome
\* (chart, image, the inspector's answer for the image) per ImageRef S3
\* produced.
C23_SameOutcomes ==
    (/\ ~cancelled
     /\ closed["resultChan"]
     /\ \A i \in Images : Cardinality(Answers(i)) <= 1) =>
        hist.delivered =
            {<<ref[1], ref[2], EntryErr(CHOOSE a \in Answers(ref[2]) : TRUE)>> :
                ref \in hist.refs}


\* C24: no two RenderResults of one run carry the same manifest path, also
\* when charts share a chart name, and a manifest file S1 wrote is never
\* overwritten by another render: the file at a RenderResult's path holds the
\* output of that render.
C24_UniqueManifestPaths ==
    call.fn = "renderRun" =>
        /\ \A j, k \in DOMAIN call.results :
             j # k => call.results[j].manifestPath # call.results[k].manifestPath
        /\ \A k \in DOMAIN call.results :
             call.files[call.results[k].manifestPath] = call.results[k].chart


BumpRank(b) == CASE b = "major" -> 3 [] b = "minor" -> 2 [] b = "patch" -> 1 [] OTHER -> 0
Highest(bumps) ==
    IF bumps = {} THEN "none"
    ELSE CHOOSE b \in bumps : \A c \in bumps : BumpRank(c) <= BumpRank(b)

\* The same messages in another order.
Reorderings(seq) ==
    {[k \in 1..Len(seq) |-> seq[o[k]]] :
        o \in {f \in [1..Len(seq) -> 1..Len(seq)] :
                  \A j, k \in 1..Len(seq) : f[j] = f[k] => j = k}}

\* C26: analyzeManyCommits returns the highest of the bumps of its messages
\* (major > minor > patch > none), the same for every order of the messages,
\* and "none" for an empty or missing list.
C26_HighestBump ==
    call.fn = "analyzeManyCommits" =>
        LET in == call.in
            bumps == {getVersionBump(in.messages[k], in.strict) :
                         k \in 1..Len(in.messages)} IN
        /\ (~in.given \/ in.messages = <<>>) => call.out = "none"
        /\ "error" \notin bumps => call.out = Highest(bumps)
        /\ \A other \in Reorderings(in.messages) :
             analyzeManyCommits(in.given, other, in.strict) = call.out


\* A message is a conventional commit: its first line is
\* type, optional (scope), optional !, a colon and a description.
Conventional(m) == m.type # "" /\ m.scope # "empty" /\ m.colon /\ m.description

\* C28: getVersionBump of a conventional commit: major for a breaking change
\* (the "!" marker or a BREAKING CHANGE line), whatever the type; otherwise
\* minor for feat, patch for fix, perf and refactor, none for chore, docs and
\* ci. A message that is not a conventional commit: patch in non-strict mode,
\* an error in strict mode.
C28_BumpOfMessage ==
    call.fn = "getVersionBump" =>
        LET m == call.in.message
            type == toLowerCase(m.type) IN
        IF ~Conventional(m)
        THEN call.out = IF call.in.strict THEN "error" ELSE "patch"
        ELSE /\ call.out # "error"
             /\ (m.marker \/ m.footer) <=> call.out = "major"
             /\ ~(m.marker \/ m.footer) =>
                  /\ type = "feat" => call.out = "minor"
                  /\ type \in {"fix", "perf", "refactor"} => call.out = "patch"
                  /\ type \in {"chore", "docs", "ci"} => call.out = "none"

\* C28's case: fix(scope)!: .. is a breaking change and gives major.
C28_Witness ==
    /\ call.fn = "getVersionBump"
    /\ call.in.message.type = "fix" /\ call.in.message.scope = "named"
    /\ call.in.message.marker /\ Conventional(call.in.message)
    /\ call.out = "major"


\* The number a run of decimal digits stands for.
Value(run) == parseInt(run)

\* A version X.Y.Z: three runs of digits, after "v" or nothing, with a
\* prerelease suffix or none.
WellFormed(v) ==
    /\ v.prefix \in {"", "v"} /\ Len(v.comps) = 3
    /\ \A k \in 1..3 : IsDigits(v.comps[k])
    /\ v.tail = "" \/ v.tail = "-alpha"

\* C27: calculateNextVersion on a version X.Y.Z (optional v, optional
\* prerelease suffix) returns (X+1).0.0 for major, X.(Y+1).0 for minor,
\* X.Y.(Z+1) for patch and X.Y.Z for none, in decimal without leading zeros
\* and without the suffix, with the v exactly when the input had it and
\* keepPrefix is true; a version that does not parse or an unknown bump type
\* is an error.
C27_NextVersion ==
    call.fn = "calculateNextVersion" =>
        LET v == call.in.currentVersion
            b == call.in.bumpType
            out == call.out IN
        IF ~WellFormed(v) \/ b \notin {"major", "minor", "patch", "none"}
        THEN out.err
        ELSE LET X == Value(v.comps[1])
                 Y == Value(v.comps[2])
                 Z == Value(v.comps[3]) IN
             /\ ~out.err
             /\ <<Value(out.comps[1]), Value(out.comps[2]), Value(out.comps[3])>> =
                  CASE b = "major" -> <<X + 1, 0, 0>>
                    [] b = "minor" -> <<X, Y + 1, 0>>
                    [] b = "patch" -> <<X, Y, Z + 1>>
                    [] OTHER -> <<X, Y, Z>>
             /\ \A k \in 1..3 : IsDigits(out.comps[k]) /\
                                (Len(out.comps[k]) > 1 => out.comps[k][1] # 0)
             /\ out.tail = ""
             /\ out.prefix = "v" <=> (v.prefix = "v" /\ call.in.keepPrefix)
             /\ out.prefix \in {"", "v"}

\* C27's case: the major bump of v9.90.99-alpha with keepPrefix is v10.0.0.
C27_Witness ==
    /\ call.fn = "calculateNextVersion"
    /\ call.in.currentVersion =
         [prefix |-> "v", comps |-> <<(<<9>>), (<<9, 0>>), (<<9, 9>>)>>, tail |-> "-alpha"]
    /\ call.in.bumpType = "major" /\ call.in.keepPrefix
    /\ call.out = [err |-> FALSE, prefix |-> "v",
                   comps |-> <<(<<1, 0>>), (<<0>>), (<<0>>)>>, tail |-> ""]


\* The buildable folders of a root directory, and those of them that hold a
\* file of the diff.
Buildable(root) == {name \in RootNames : root[name] = "dirWithDockerfile"} \ {".tooling", ".github"}
Touched(root, files) == {f \in Buildable(root) : \E file \in files : Len(file) > 1 /\ file[1] = f}

\* C29: detect-changes in detect mode prints all buildable folders on a
\* workflow_dispatch event, when BASE_REF is unset and when no changes are
\* detected (the diff is empty or touches no buildable folder); otherwise
\* exactly the buildable folders that hold a changed file. What it prints is
\* always a subset of the buildable folders, which hold no hidden folder and
\* not .tooling.
C29_DetectChanges ==
    call.fn = "detect-changes" =>
        LET in == call.in
            all == Buildable(in.root)
            diff == IF in.gitOk THEN in.diff ELSE {} IN
        /\ call.out \subseteq all
        /\ \A f \in call.out : ~startsWithDot(f)
        /\ in.mode = "detect" =>
             call.out = IF \/ in.eventName = "workflow_dispatch"
                           \/ in.baseRef = ""
                           \/ Touched(in.root, diff) = {}
                        THEN all
                        ELSE Touched(in.root, diff)


\* The S4 workers that hold cacheLock, for reading or for writing.
LockHolders == lockR \cup lockW

\* C30: no S4 worker holds the cache lock while it runs the inspection, waits
\* on a pending WaitGroup or is in its send on the output channel: the lock is
\* held only by workers at a read or write of the cache and pending maps, at
\* most one for writing and then none for reading, and when the program has
\* come to rest nobody holds it and nobody waits for it.
C30_LockOnlyForMaps ==
    /\ \A r \in s4.busy :
         r.pc \in {"inspect", "wgWait", "sendOut"} => Ref(r) \notin LockHolders
    /\ \A ref \in lockR :
         \E r \in s4.busy : Ref(r) = ref /\ r.pc \in {"wfpLook", "wfpRead", "cacheLook"}
    /\ \A ref \in lockW :
         \E r \in s4.busy : Ref(r) = ref /\ r.pc \in {"leadInsert", "store"}
    /\ Cardinality(lockW) <= 1
    /\ lockW # {} => lockR = {}
    /\ Quiescent =>
         /\ LockHolders = {}
         /\ \A r \in s4.busy : r.pc \notin {"wfpRLock", "wfpRLock2", "cacheRLock",
                                            "leadLock", "storeLock"}

\* C30's case: one worker runs the inspection, another waits on its
\* WaitGroup, and a third holds the lock for its lookup in pending.
C30_Witness ==
    /\ \E r \in s4.busy : r.pc = "inspect"
    /\ \E r \in s4.busy : r.pc = "wgWait"
    /\ \E r \in s4.busy : r.pc = "wfpLook" /\ Ref(r) \in lockR


WorkersStarted == s1 # NotStarted
C32_WipedOnceBeforeWorkers ==
    /\ [][(~WorkersStarted /\ WorkersStarted') => outputDir' = EmptyDir]_vars
    /\ [][WorkersStarted => /\ outputDir'.exists
                            /\ outputDir.files \subseteq outputDir'.files]_vars
    /\ [](closed["s1out"] => hist.written \subseteq outputDir.files)
C32_Witness ==
    /\ closed["s1out"]
    /\ main.pc = "done"
    /\ hist.written = OutputPaths
    /\ outputDir.files = OutputPaths


\* C33: the chart descriptor is not changed on its way: the input pump, S1,
\* S2 and S3 each send on a chart equal, field by field, to the one that came
\* in (on the result channel and on the error channel alike), and S2 and S3
\* send on the manifest path that S1 produced.
SendsOf(c) == {c.s1[k] : k \in 1..Len(c.s1)} \cup {c.s2[k] : k \in 1..Len(c.s2)}
                \cup {c.s3[k] : k \in 1..Len(c.s3)}
C33_ChartUnchanged ==
    call.fn = "forward" =>
      /\ call.pumped = call.in.chart
      /\ \A f \in DOMAIN call.in.chart : call.pumped[f] = call.in.chart[f]
      /\ \A m \in SendsOf(call) : m.chart = call.in.chart
      /\ \A k \in 1..Len(call.s2) :
           call.s2[k].chan # "errorChan" => call.s2[k].manifestFile = call.in.manifestPath
      /\ \A k \in 1..Len(call.s3) :
           call.s3[k].chan # "errorChan" => call.s3[k].manifestFile = call.in.manifestPath
C33_Witness ==
    /\ call.fn = "forward"
    /\ call.in.chart.env = "prod"
    /\ Len(call.s3) = 2
    /\ \A k \in 1..2 : call.s3[k].chan = "outputChan"


\* C34: whenever nobody holds the cache lock, an image is a key of pending
\* exactly when one worker is in flight as leader for it (it has inserted its
\* waiter and has not yet stored its result), and the waiter under that key
\* is that leader's own; and a step that replaces or deletes the waiter of an
\* image is the store of the leader that inserted it.
InFlight(i) == {r \in s4.busy : r.image = i /\ r.pc \in {"inspect", "storeLock", "store"}}
LockFree == lockW = {} /\ lockR = {}
C34_PendingIsLeaders ==
    /\ [](LockFree => \A i \in Images :
            /\ InPending(i) <=> Cardinality(InFlight(i)) = 1
            /\ InPending(i) => \A r \in InFlight(i) : pending[i] = r.chart)
    /\ [][\A i \in Images :
            (InPending(i) /\ pending'[i] # pending[i]) =>
               \E r \in s4.busy : /\ r.pc = "store" /\ r.image = i /\ r.chart = pending[i]
                                  /\ pending'[i] = NoChart]_vars


\* C35: the cache is written once per key: an image that is in the cache
\* stays there with the value first stored, for the rest of the run; and no
\* image is a key of cache and of pending at a moment when nobody holds the
\* lock.
C35_CacheWriteOnce ==
    /\ [][\A i \in Images : InCache(i) => cache'[i] = cache[i]]_vars
    /\ [](LockFree => \A i \in Images : ~(InCache(i) /\ InPending(i)))


\* C36: when the output channel of S4 has been closed in a run without
\* cancellation (its input was closed and its workers have returned), pending
\* has no key and the keys of the cache are the image strings S4 received.
ReceivedImages == {i \in Images : \E c \in Charts : hist.recv[<<c, i>>] > 0}
C36_AtCloseOfS4 ==
    (closed["s4out"] /\ ~cancelled) =>
      /\ closed["s3out"] /\ s3.busy = {} /\ s4.busy = {}
      /\ \A i \in Images : ~InPending(i)
      /\ {i \in Images : InCache(i)} = ReceivedImages
C36_Witness ==
    /\ closed["s4out"] /\ ~cancelled
    /\ ReceivedImages = Images
    /\ \E i \in Images : hist.recv[<<1, i>>] = 0


\* C37: for each ChartSpec the stages S1, S2 and S3 together build and send
\* at most one ErrorEnvelope, and a chart with an ErrorEnvelope has no
\* VerifyResult anywhere: not in the hands of an S4 worker, not in the cache,
\* not in the output pump and not among the entries the caller received.
Verified ==
    ({r.out.chart : r \in s4.busy} \cup {cache[i].chart : i \in Images}
       \cup {pumpOut.res.chart} \cup {d[1] : d \in hist.delivered}) \ {NoChart}
C37_OneErrorOrResults ==
    \A c \in Charts :
        /\ hist.errs[c] <= 1
        /\ hist.errs[c] = 1 => c \notin Verified
C37_Witness ==
    /\ \E c \in Range(params) : hist.errs[c] = 1
    /\ \E c \in Range(params) :
         /\ hist.errs[c] = 0
         /\ Cardinality({d \in hist.delivered : d[1] = c}) = 2


\* C38: with a single S4 worker the inspector runs exactly once per distinct
\* image string, at the first ImageRef that names it (the cache has no entry
\* for it and no other ImageRef naming it was received before), and every
\* later ImageRef naming it is answered with the (exists, error) of the cache,
\* without another run.
RefsReceived(i) == {c \in Charts : hist.recv[<<c, i>>] > 0}
C38_SingleWorkerState ==
    \A i \in Images :
        /\ hist.inspectCount[i] <= 1
        /\ Cardinality(hist.emitted[i]) <= 1
        /\ cache[i] # NoResult =>
             /\ hist.inspectCount[i] = 1
             /\ hist.emitted[i] \subseteq {<<cache[i].exists, cache[i].err>>}
        /\ \A r \in s4.busy :
             (r.image = i /\ r.pc = "sendOut") =>
                /\ r.out.image = i
                /\ <<r.out.exists, r.out.err>> = <<cache[i].exists, cache[i].err>>
        /\ (RefsReceived(i) # {} /\ s4.busy = {}) => hist.inspectCount[i] = 1
C38_SingleWorkerStep ==
    \A i \in Images :
        hist.inspectCount'[i] > hist.inspectCount[i] =>
           /\ cache[i] = NoResult
           /\ Cardinality(RefsReceived(i)) = 1
C38_OncePerImage ==
    /\ [](workerCount = 1 => C38_SingleWorkerState)
    /\ [][workerCount = 1 => C38_SingleWorkerStep]_vars
C38_Witness ==
    /\ workerCount = 1 /\ ~cancelled
    /\ \E i \in Images :
         /\ Cardinality(RefsReceived(i)) = MaxCharts
         /\ hist.inspectCount[i] = 1
    /\ s4.busy = {} /\ pumpOut.pc = "recv"


\* C39: the collection loop of the render-only command prints exactly one
\* outcome line per chart, a success line for a RenderResult and an error
\* line for an ErrorEnvelope, so that when it stops the number of lines is
\* the number of charts; it has received every ErrorEnvelope when it stops;
\* and it stops once the renderer's result channel is closed.
LinesOf(c) == {l \in main.lines : l[2] = c}
RenderQuiescent == ~ENABLED NextRender
C39_ErrorsReceived ==
    main.pc = "done" =>
      /\ s1.busy = {}
      /\ \A c \in Range(params) :
           hist.errs[c] = 1 <=> Line("err", c) \in main.lines
C39_Terminates ==
    /\ (closed["s1out"] /\ RenderQuiescent) => main.pc = "done"
    /\ (main.pc = "loop" /\ RenderQuiescent) => FALSE
C39_OneLinePerChart ==
    /\ \A l \in main.lines : l[2] \in Range(params)
    /\ \A c \in Range(params) : Cardinality(LinesOf(c)) <= 1
    /\ main.pc = "done" =>
         /\ main.count = Len(params)
         /\ \A c \in Range(params) : Cardinality(LinesOf(c)) = 1
C39_CollectionLoop ==
    main.pc \in {"loop", "done"} =>
      /\ C39_OneLinePerChart
      /\ C39_ErrorsReceived
      /\ C39_Terminates

====
